---- MODULE Spec2Model ----
(***************************************************************************)
(* Model of profiling::RedBlackTree<Key, CmpFn>                           *)
(* (src/include/profiling/RedBlackTree.hpp), an order-statistics          *)
(* red-black tree, instantiated with an integer key and std::less.        *)
(*                                                                         *)
(* The heap is a set of cells; a Node* is a cell index.  Every member     *)
(* function of the class is an operator that maps the tree (the object    *)
(* together with the nodes it owns) to the tree after the call, written   *)
(* statement by statement after the C++ body; every loop is a RECURSIVE   *)
(* operator whose parameters are the variables the loop changes.          *)
(***************************************************************************)
EXTENDS Integers, Sequences, FiniteSets, TLC

\* Number of distinct key values insert and erase are called with.
NumKeys == 9

\* Number of distinct key values of the caller that also issues queries.
NumCallerKeys == 7

\* Width of size_t in the model: sizes are computed modulo 2^SizeBits.
SizeBits == 16

Keys == 0 .. (NumKeys - 1)

\* Number of distinct key values the programs with two trees use.
NumOwnKeys == 2

\* Number of addresses operator new can return.  A program with one tree
\* needs one for the sentinel and one for each key that can be stored at the
\* same time; a program with two trees and the temporary an assignment
\* returns needs that three times over.
NumCells ==
    IF 1 + NumKeys >= 3 * (1 + NumOwnKeys) THEN 1 + NumKeys
                                           ELSE 3 * (1 + NumOwnKeys)

Cells == 0 .. (NumCells - 1)

SizeMod == 2 ^ SizeBits

RED == 0

BLACK == 1

\* Key{} for an arithmetic key type.
DefaultKey == 0

\* nullptr.  It is no cell: a heap field read at Null is a read through a
\* null pointer.
Null == -1

\* size_t arithmetic (unsigned, wrapping).
Plus(a, b) == (a + b) % SizeMod

Minus(a, b) == ((a - b) + SizeMod) % SizeMod

\* (size_t) -1, the value erase passes to updateSize.
MinusOne == SizeMod - 1

\* std::less<Key>
CMP(lhs, rhs) == lhs < rhs

\* Faulty variant of equal: no two keys are equivalent.  C11 detects it.
equal_Never(lhs, rhs) == FALSE

equal(lhs, rhs) == (~CMP(lhs, rhs)) /\ (~CMP(rhs, lhs))

notEqual(lhs, rhs) == CMP(lhs, rhs) \/ CMP(rhs, lhs)

\* Contents of a cell that is not allocated.
FreeCell == [c \in Cells |-> 0]

\* operator new.  It may return any address that is not allocated; the tree
\* never orders or hashes addresses, so two runs that differ only in the
\* addresses returned are the same run up to a renaming of the cells.  The
\* model returns the cell `want' when it is free, else the lowest free one.
\* A sentinel asks for the lowest free cell among 0, 1 + NumOwnKeys,
\* 2 * (1 + NumOwnKeys), ...; insert asks for the cell key + 1 after the
\* sentinel of its tree.
NewCell(t, want) ==
    IF want \in Cells \ t.live THEN want
    ELSE CHOOSE c \in Cells \ t.live : \A d \in Cells \ t.live : c <= d

\* The cell a new sentinel asks for.
SentinelCell(t) ==
    LET free == {c \in Cells \ t.live : c % (1 + NumOwnKeys) = 0}
    IN  IF free = {} THEN Null
        ELSE CHOOSE c \in free : \A d \in free : c <= d

\* Node::Node(key, size, left, right, parent, color) constructed at cell c.
Node(t, c, key, size, left, right, parent, color) ==
    [t EXCEPT !.live = @ \cup {c},
              !.key[c] = key,
              !.size[c] = size,
              !.left[c] = left,
              !.right[c] = right,
              !.parent[c] = parent,
              !.color[c] = color]

\* delete x.  The cell leaves t.live; what it held is gone, and the model
\* blanks it so that a freed cell holds nothing a later state depends on.
DeleteNode(t, x) ==
    [t EXCEPT !.live = @ \ {x},
              !.key[x] = 0,
              !.size[x] = 0,
              !.left[x] = 0,
              !.right[x] = 0,
              !.parent[x] = 0,
              !.color[x] = 0]

\* The heap before anything is allocated.
EmptyHeap ==
    [live |-> {}, key |-> FreeCell, size |-> FreeCell,
     left |-> FreeCell, right |-> FreeCell, parent |-> FreeCell,
     color |-> FreeCell, m_nil |-> 0, m_root |-> 0]

\* RedBlackTree::RedBlackTree() run in heap t: t.m_nil and t.m_root become
\* the members of the object constructed.
defaultConstruct(t) ==
    LET nil == NewCell(t, SentinelCell(t))
        t0 == Node(t, nil, DefaultKey, 0, nil, nil, nil, BLACK)
    IN  [t0 EXCEPT !.m_nil = nil, !.m_root = nil]

\* RedBlackTree::RedBlackTree() as the first allocation of the program.
RedBlackTree == defaultConstruct(EmptyHeap)

(***************************************************************************)
(* Navigation                                                              *)
(***************************************************************************)
RECURSIVE min(_, _)
min(t, x) ==
    IF x # t.m_nil /\ t.left[x] # t.m_nil THEN min(t, t.left[x]) ELSE x

\* Faulty variant of max(Node*): one step to the right, no loop.  C19
\* detects it.
max_OneStep(t, x) ==
    IF x # t.m_nil /\ t.right[x] # t.m_nil THEN t.right[x] ELSE x

RECURSIVE max(_, _)
max(t, x) ==
    IF x # t.m_nil /\ t.right[x] # t.m_nil THEN max(t, t.right[x]) ELSE x

\* Faulty variant of the climb of successor: it stops at the parent, also
\* when the node is a right child.  C17 detects it.
successorUp_OneStep(t, x) == IF x = t.m_nil THEN t.m_nil ELSE t.parent[x]

RECURSIVE successorUp(_, _)
successorUp(t, x) ==
    IF x = t.m_nil THEN t.m_nil
    ELSE IF x = t.left[t.parent[x]] THEN t.parent[x]
    ELSE successorUp(t, t.parent[x])

\* Faulty variant of successor: takes the right child itself instead of the
\* minimum of the right subtree.  C5 detects it.
successor_NoDescent(t, x) ==
    IF t.right[x] # t.m_nil THEN t.right[x] ELSE successorUp(t, x)

successor(t, x) ==
    IF t.right[x] # t.m_nil THEN min(t, t.right[x]) ELSE successorUp(t, x)

\* Faulty variant of the loop of predecessor: it tests for a left child, as
\* the loop of successor does.  C37 detects it.
RECURSIVE predecessorUp_SameSide(_, _)
predecessorUp_SameSide(t, x) ==
    IF x = t.m_nil THEN t.m_nil
    ELSE IF x = t.left[t.parent[x]] THEN t.parent[x]
    ELSE predecessorUp_SameSide(t, t.parent[x])

RECURSIVE predecessorUp(_, _)
predecessorUp(t, x) ==
    IF x = t.m_nil THEN t.m_nil
    ELSE IF x = t.right[t.parent[x]] THEN t.parent[x]
    ELSE predecessorUp(t, t.parent[x])

\* Faulty variant of predecessor: from the sentinel it steps back to the
\* maximum, as the iterator of std::set does from end().  C38 detects it.
predecessor_EndToMax(t, x) ==
    IF x = t.m_nil THEN max(t, t.m_root)
    ELSE IF t.left[x] # t.m_nil THEN max(t, t.left[x]) ELSE predecessorUp(t, x)

predecessor(t, x) ==
    IF t.left[x] # t.m_nil THEN max(t, t.left[x]) ELSE predecessorUp(t, x)

\* Faulty variant of the loop of search: it descends to the left whatever
\* the comparison says.  C18 detects it.
RECURSIVE searchFrom_AlwaysLeft(_, _, _)
searchFrom_AlwaysLeft(t, key, x) ==
    IF x # t.m_nil /\ notEqual(key, t.key[x])
    THEN searchFrom_AlwaysLeft(t, key, t.left[x])
    ELSE x

RECURSIVE searchFrom(_, _, _)
searchFrom(t, key, x) ==
    IF x # t.m_nil /\ notEqual(key, t.key[x])
    THEN IF CMP(key, t.key[x]) THEN searchFrom(t, key, t.left[x])
                               ELSE searchFrom(t, key, t.right[x])
    ELSE x

search(t, key) == searchFrom(t, key, t.m_root)

(***************************************************************************)
(* Rotations, transplant, updateSize                                       *)
(***************************************************************************)
\* Statements in sequence: the state a statement leaves is the state s the
\* next one starts from.
Do(t, Statement(_)) == Statement(t)

\* Faulty variant of rotateLeft: the subtree that moves from y to x is not
\* told its new parent (the statement y->left->parent = x is missing).  C33
\* detects it.
rotateLeft_NoChildParent(t, x) ==
    LET y  == t.right[x]
        t1 == Do(t,  LAMBDA s : [s EXCEPT !.right[x] = s.left[y]])
        t3 == Do(t1, LAMBDA s : [s EXCEPT !.parent[y] = s.parent[x]])
        t4 == Do(t3, LAMBDA s :
                 IF s.parent[x] = s.m_nil THEN [s EXCEPT !.m_root = y]
                 ELSE IF x = s.left[s.parent[x]]
                      THEN [s EXCEPT !.left[s.parent[x]] = y]
                      ELSE [s EXCEPT !.right[s.parent[x]] = y])
        t5 == Do(t4, LAMBDA s : [s EXCEPT !.left[y] = x])
        t6 == Do(t5, LAMBDA s : [s EXCEPT !.parent[x] = y])
        t7 == Do(t6, LAMBDA s : IF s.left[x] # s.m_nil
                                THEN [s EXCEPT !.size[y] = Plus(@, s.size[s.left[x]])]
                                ELSE s)
        t8 == Do(t7, LAMBDA s : [s EXCEPT !.size[y] = Plus(@, 1)])
        t9 == Do(t8, LAMBDA s : IF s.right[y] # s.m_nil
                                THEN [s EXCEPT !.size[x] = Minus(@, s.size[s.right[y]])]
                                ELSE s)
    IN  Do(t9, LAMBDA s : [s EXCEPT !.size[x] = Minus(@, 1)])

\* Faulty variant of rotateLeft: relinks but leaves both size fields as they
\* were.  C1 detects it.
rotateLeft_NoSize(t, x) ==
    LET y  == t.right[x]
        t1 == Do(t,  LAMBDA s : [s EXCEPT !.right[x] = s.left[y]])
        t2 == Do(t1, LAMBDA s : IF s.left[y] # s.m_nil
                                THEN [s EXCEPT !.parent[s.left[y]] = x] ELSE s)
        t3 == Do(t2, LAMBDA s : [s EXCEPT !.parent[y] = s.parent[x]])
        t4 == Do(t3, LAMBDA s :
                 IF s.parent[x] = s.m_nil THEN [s EXCEPT !.m_root = y]
                 ELSE IF x = s.left[s.parent[x]]
                      THEN [s EXCEPT !.left[s.parent[x]] = y]
                      ELSE [s EXCEPT !.right[s.parent[x]] = y])
        t5 == Do(t4, LAMBDA s : [s EXCEPT !.left[y] = x])
    IN  Do(t5, LAMBDA s : [s EXCEPT !.parent[x] = y])

rotateLeft(t, x) ==
    LET y  == t.right[x]
        t1 == Do(t,  LAMBDA s : [s EXCEPT !.right[x] = s.left[y]])
        t2 == Do(t1, LAMBDA s : IF s.left[y] # s.m_nil
                                THEN [s EXCEPT !.parent[s.left[y]] = x] ELSE s)
        t3 == Do(t2, LAMBDA s : [s EXCEPT !.parent[y] = s.parent[x]])
        t4 == Do(t3, LAMBDA s :
                 IF s.parent[x] = s.m_nil THEN [s EXCEPT !.m_root = y]
                 ELSE IF x = s.left[s.parent[x]]
                      THEN [s EXCEPT !.left[s.parent[x]] = y]
                      ELSE [s EXCEPT !.right[s.parent[x]] = y])
        t5 == Do(t4, LAMBDA s : [s EXCEPT !.left[y] = x])
        t6 == Do(t5, LAMBDA s : [s EXCEPT !.parent[x] = y])
        t7 == Do(t6, LAMBDA s : IF s.left[x] # s.m_nil
                                THEN [s EXCEPT !.size[y] = Plus(@, s.size[s.left[x]])]
                                ELSE s)
        t8 == Do(t7, LAMBDA s : [s EXCEPT !.size[y] = Plus(@, 1)])
        t9 == Do(t8, LAMBDA s : IF s.right[y] # s.m_nil
                                THEN [s EXCEPT !.size[x] = Minus(@, s.size[s.right[y]])]
                                ELSE s)
    IN  Do(t9, LAMBDA s : [s EXCEPT !.size[x] = Minus(@, 1)])

\* Faulty variant of rotateRight: relinks but leaves both size fields as
\* they were.  C36 detects it.
rotateRight_NoSize(t, x) ==
    LET y  == t.left[x]
        t1 == Do(t,  LAMBDA s : [s EXCEPT !.left[x] = s.right[y]])
        t2 == Do(t1, LAMBDA s : IF s.right[y] # s.m_nil
                                THEN [s EXCEPT !.parent[s.right[y]] = x] ELSE s)
        t3 == Do(t2, LAMBDA s : [s EXCEPT !.parent[y] = s.parent[x]])
        t4 == Do(t3, LAMBDA s :
                 IF s.parent[x] = s.m_nil THEN [s EXCEPT !.m_root = y]
                 ELSE IF x = s.left[s.parent[x]]
                      THEN [s EXCEPT !.left[s.parent[x]] = y]
                      ELSE [s EXCEPT !.right[s.parent[x]] = y])
        t5 == Do(t4, LAMBDA s : [s EXCEPT !.right[y] = x])
    IN  Do(t5, LAMBDA s : [s EXCEPT !.parent[x] = y])

\* Faulty variant of rotateRight: m_root is left alone when x is the root.
\* C30 detects it.
rotateRight_KeepsRoot(t, x) ==
    LET y  == t.left[x]
        t1 == Do(t,  LAMBDA s : [s EXCEPT !.left[x] = s.right[y]])
        t2 == Do(t1, LAMBDA s : IF s.right[y] # s.m_nil
                                THEN [s EXCEPT !.parent[s.right[y]] = x] ELSE s)
        t3 == Do(t2, LAMBDA s : [s EXCEPT !.parent[y] = s.parent[x]])
        t4 == Do(t3, LAMBDA s :
                 IF s.parent[x] = s.m_nil THEN s
                 ELSE IF x = s.left[s.parent[x]]
                      THEN [s EXCEPT !.left[s.parent[x]] = y]
                      ELSE [s EXCEPT !.right[s.parent[x]] = y])
        t5 == Do(t4, LAMBDA s : [s EXCEPT !.right[y] = x])
        t6 == Do(t5, LAMBDA s : [s EXCEPT !.parent[x] = y])
        t7 == Do(t6, LAMBDA s : IF s.right[x] # s.m_nil
                                THEN [s EXCEPT !.size[y] = Plus(@, s.size[s.right[x]])]
                                ELSE s)
        t8 == Do(t7, LAMBDA s : [s EXCEPT !.size[y] = Plus(@, 1)])
        t9 == Do(t8, LAMBDA s : IF s.left[y] # s.m_nil
                                THEN [s EXCEPT !.size[x] = Minus(@, s.size[s.left[y]])]
                                ELSE s)
    IN  Do(t9, LAMBDA s : [s EXCEPT !.size[x] = Minus(@, 1)])

rotateRight(t, x) ==
    LET y  == t.left[x]
        t1 == Do(t,  LAMBDA s : [s EXCEPT !.left[x] = s.right[y]])
        t2 == Do(t1, LAMBDA s : IF s.right[y] # s.m_nil
                                THEN [s EXCEPT !.parent[s.right[y]] = x] ELSE s)
        t3 == Do(t2, LAMBDA s : [s EXCEPT !.parent[y] = s.parent[x]])
        t4 == Do(t3, LAMBDA s :
                 IF s.parent[x] = s.m_nil THEN [s EXCEPT !.m_root = y]
                 ELSE IF x = s.left[s.parent[x]]
                      THEN [s EXCEPT !.left[s.parent[x]] = y]
                      ELSE [s EXCEPT !.right[s.parent[x]] = y])
        t5 == Do(t4, LAMBDA s : [s EXCEPT !.right[y] = x])
        t6 == Do(t5, LAMBDA s : [s EXCEPT !.parent[x] = y])
        t7 == Do(t6, LAMBDA s : IF s.right[x] # s.m_nil
                                THEN [s EXCEPT !.size[y] = Plus(@, s.size[s.right[x]])]
                                ELSE s)
        t8 == Do(t7, LAMBDA s : [s EXCEPT !.size[y] = Plus(@, 1)])
        t9 == Do(t8, LAMBDA s : IF s.left[y] # s.m_nil
                                THEN [s EXCEPT !.size[x] = Minus(@, s.size[s.left[y]])]
                                ELSE s)
    IN  Do(t9, LAMBDA s : [s EXCEPT !.size[x] = Minus(@, 1)])

\* Faulty variant of transplant: the statement v->parent = u->parent is
\* missing, so v still names the node it replaced as its parent.  C32
\* detects it.
transplant_NoParent(t, u, v) ==
    IF t.parent[u] = t.m_nil THEN [t EXCEPT !.m_root = v]
    ELSE IF u = t.left[t.parent[u]]
         THEN [t EXCEPT !.left[t.parent[u]] = v]
         ELSE [t EXCEPT !.right[t.parent[u]] = v]

\* Faulty variant of transplant: m_root is left alone when u is the root.
\* C15 detects it.
transplant_KeepsRoot(t, u, v) ==
    LET t1 == Do(t, LAMBDA s :
                 IF s.parent[u] = s.m_nil THEN s
                 ELSE IF u = s.left[s.parent[u]]
                      THEN [s EXCEPT !.left[s.parent[u]] = v]
                      ELSE [s EXCEPT !.right[s.parent[u]] = v])
    IN  Do(t1, LAMBDA s : [s EXCEPT !.parent[v] = s.parent[u]])

transplant(t, u, v) ==
    LET t1 == Do(t, LAMBDA s :
                 IF s.parent[u] = s.m_nil THEN [s EXCEPT !.m_root = v]
                 ELSE IF u = s.left[s.parent[u]]
                      THEN [s EXCEPT !.left[s.parent[u]] = v]
                      ELSE [s EXCEPT !.right[s.parent[u]] = v])
    IN  Do(t1, LAMBDA s : [s EXCEPT !.parent[v] = s.parent[u]])

\* Faulty variant of updateSize: a do-while loop, which adjusts the node it
\* starts at before it compares it with the end, and so writes to the
\* sentinel when it starts there.  C16 detects it.
RECURSIVE updateSize_Rest(_, _, _, _)
updateSize_Rest(t, start, end, value) ==
    IF start # end
    THEN updateSize_Rest([t EXCEPT !.size[start] = Plus(@, value)],
                         t.parent[start], end, value)
    ELSE t

updateSize_DoWhile(t, start, end, value) ==
    updateSize_Rest([t EXCEPT !.size[start] = Plus(@, value)],
                    t.parent[start], end, value)

\* Faulty variant of updateSize: only the first node is adjusted, not its
\* ancestors.  C12 detects it.
updateSize_OneLevel(t, start, end, value) ==
    IF start # end THEN [t EXCEPT !.size[start] = Plus(@, value)] ELSE t

RECURSIVE updateSize(_, _, _, _)
updateSize(t, start, end, value) ==
    IF start # end
    THEN updateSize([t EXCEPT !.size[start] = Plus(@, value)],
                    t.parent[start], end, value)
    ELSE t

(***************************************************************************)
(* Insertion                                                               *)
(***************************************************************************)
\* What a call did, for the properties that speak of its work: the
\* iterations of the fixup loop, the rotations it called, and the branch by
\* which erase(Node*) took the node out of the tree ("none" when it did not).
NoWork == [iters |-> 0, rots |-> 0, splice |-> "none"]

Worked(st, rots) ==
    [iters |-> st.iters + 1, rots |-> st.rots + rots, splice |-> st.splice]

\* Faulty variant of that pass: with a BLACK uncle the parent of z is not
\* painted BLACK before the grandparent is rotated away.  C35 detects it.
fixUpInsertLeft_ParentStaysRed(t, z) ==
    LET y == t.right[t.parent[t.parent[z]]] IN
    IF t.color[y] = RED
    THEN LET t1 == Do(t,  LAMBDA s : [s EXCEPT !.color[s.parent[z]] = BLACK])
             t2 == Do(t1, LAMBDA s : [s EXCEPT !.color[y] = BLACK])
             t3 == Do(t2, LAMBDA s : [s EXCEPT !.color[s.parent[s.parent[z]]] = RED])
         IN  Do(t3, LAMBDA s : [t |-> s, z |-> s.parent[s.parent[z]], rots |-> 0])
    ELSE LET inner == (z = t.right[t.parent[z]])
             z1 == IF inner THEN t.parent[z] ELSE z
             t1 == IF inner THEN rotateLeft(t, z1) ELSE t
             t3 == Do(t1, LAMBDA s : [s EXCEPT !.color[s.parent[s.parent[z1]]] = RED])
             t4 == Do(t3, LAMBDA s : rotateRight(s, s.parent[s.parent[z1]]))
         IN  [t |-> t4, z |-> z1, rots |-> IF inner THEN 2 ELSE 1]

\* One pass of the loop of fixUpInsert with z->parent a left child: the tree
\* and z after the pass and the number of rotations it called.
fixUpInsertLeft(t, z) ==
    LET y == t.right[t.parent[t.parent[z]]] IN
    IF t.color[y] = RED
    THEN LET t1 == Do(t,  LAMBDA s : [s EXCEPT !.color[s.parent[z]] = BLACK])
             t2 == Do(t1, LAMBDA s : [s EXCEPT !.color[y] = BLACK])
             t3 == Do(t2, LAMBDA s : [s EXCEPT !.color[s.parent[s.parent[z]]] = RED])
         IN  Do(t3, LAMBDA s : [t |-> s, z |-> s.parent[s.parent[z]], rots |-> 0])
    ELSE LET inner == (z = t.right[t.parent[z]])
             z1 == IF inner THEN t.parent[z] ELSE z
             t1 == IF inner THEN rotateLeft(t, z1) ELSE t
             t2 == Do(t1, LAMBDA s : [s EXCEPT !.color[s.parent[z1]] = BLACK])
             t3 == Do(t2, LAMBDA s : [s EXCEPT !.color[s.parent[s.parent[z1]]] = RED])
             t4 == Do(t3, LAMBDA s : rotateRight(s, s.parent[s.parent[z1]]))
         IN  [t |-> t4, z |-> z1, rots |-> IF inner THEN 2 ELSE 1]

\* The same pass with z->parent a right child.
fixUpInsertRight(t, z) ==
    LET y == t.left[t.parent[t.parent[z]]] IN
    IF t.color[y] = RED
    THEN LET t1 == Do(t,  LAMBDA s : [s EXCEPT !.color[s.parent[z]] = BLACK])
             t2 == Do(t1, LAMBDA s : [s EXCEPT !.color[y] = BLACK])
             t3 == Do(t2, LAMBDA s : [s EXCEPT !.color[s.parent[s.parent[z]]] = RED])
         IN  Do(t3, LAMBDA s : [t |-> s, z |-> s.parent[s.parent[z]], rots |-> 0])
    ELSE LET inner == (z = t.left[t.parent[z]])
             z1 == IF inner THEN t.parent[z] ELSE z
             t1 == IF inner THEN rotateRight(t, z1) ELSE t
             t2 == Do(t1, LAMBDA s : [s EXCEPT !.color[s.parent[z1]] = BLACK])
             t3 == Do(t2, LAMBDA s : [s EXCEPT !.color[s.parent[s.parent[z1]]] = RED])
             t4 == Do(t3, LAMBDA s : rotateLeft(s, s.parent[s.parent[z1]]))
         IN  [t |-> t4, z |-> z1, rots |-> IF inner THEN 2 ELSE 1]

RECURSIVE fixUpInsertLoop(_, _, _)
fixUpInsertLoop(t, z, st) ==
    IF t.color[t.parent[z]] # RED THEN [t |-> t, st |-> st]
    ELSE Do(IF t.parent[z] = t.left[t.parent[t.parent[z]]]
            THEN fixUpInsertLeft(t, z) ELSE fixUpInsertRight(t, z),
            LAMBDA r : fixUpInsertLoop(r.t, r.z, Worked(st, r.rots)))

\* Faulty variant of fixUpInsert: the root is not forced BLACK at the end.
\* C3 detects it.
fixUpInsert_NoRootBlack(t, z) == fixUpInsertLoop(t, z, NoWork)

\* fixUpInsert(z): the tree afterwards and the work of the loop.
fixUpInsert(t, z) ==
    Do(fixUpInsertLoop(t, z, NoWork),
       LAMBDA r : [t |-> [r.t EXCEPT !.color[r.t.m_root] = BLACK], st |-> r.st])

\* Faulty variant of the descent of insert: the comparison is the wrong way
\* round, so the descent takes the other child.  C2 detects it.
RECURSIVE insertDescend_Swapped(_, _, _, _)
insertDescend_Swapped(t, key, x, y) ==
    IF x = t.m_nil THEN [found |-> FALSE, x |-> x, y |-> y]
    ELSE IF equal(key, t.key[x]) THEN [found |-> TRUE, x |-> x, y |-> x]
    ELSE IF CMP(t.key[x], key) THEN insertDescend_Swapped(t, key, t.left[x], x)
    ELSE insertDescend_Swapped(t, key, t.right[x], x)

\* The descent loop of insert: x walks down, y trails it.
RECURSIVE insertDescend(_, _, _, _)
insertDescend(t, key, x, y) ==
    IF x = t.m_nil THEN [found |-> FALSE, x |-> x, y |-> y]
    ELSE IF equal(key, t.key[x]) THEN [found |-> TRUE, x |-> x, y |-> x]
    ELSE IF CMP(key, t.key[x]) THEN insertDescend(t, key, t.left[x], x)
    ELSE insertDescend(t, key, t.right[x], x)

\* The statements of insert between the descent and the fixup: the new node
\* z under y, and the sizes of its ancestors.  Gives the tree and z.
insertLink(t, key, y) ==
    LET z  == NewCell(t, t.m_nil + key + 1)
        t1 == Node(t, z, key, 1, t.m_nil, t.m_nil, y, RED)
        t2 == Do(t1, LAMBDA s :
                 IF y = s.m_nil THEN [s EXCEPT !.m_root = z]
                 ELSE IF CMP(s.key[z], s.key[y])
                      THEN [s EXCEPT !.left[y] = z]
                      ELSE [s EXCEPT !.right[y] = z])
    IN  Do(t2, LAMBDA s :
           [t |-> updateSize(s, s.parent[z], s.m_nil, 1), z |-> z])

\* insert(key): the tree afterwards, the node of the returned iterator, the
\* returned flag and the work of the fixup.
insert(t, key) ==
    Do(insertDescend(t, key, t.m_root, t.m_nil), LAMBDA d :
       IF d.found THEN [t |-> t, node |-> d.x, inserted |-> FALSE, st |-> NoWork]
       ELSE Do(insertLink(t, key, d.y), LAMBDA l :
               Do(fixUpInsert(l.t, l.z), LAMBDA r :
                  [t |-> r.t, node |-> l.z, inserted |-> TRUE, st |-> r.st])))

(***************************************************************************)
(* Deletion                                                                *)
(***************************************************************************)
\* The end of a pass of the loop of fixUpErase with x a left child, the sibling
\* w BLACK with a RED right child: gives the tree, x and the rotations.
fixUpEraseLeftOuter(t, x, w, rots) ==
    LET t1 == Do(t,  LAMBDA s : [s EXCEPT !.color[w] = s.color[s.parent[x]]])
        t2 == Do(t1, LAMBDA s : [s EXCEPT !.color[s.parent[x]] = BLACK])
        t3 == Do(t2, LAMBDA s : [s EXCEPT !.color[s.right[w]] = BLACK])
        t4 == Do(t3, LAMBDA s : rotateLeft(s, s.parent[x]))
    IN  Do(t4, LAMBDA s : [t |-> s, x |-> s.m_root, rots |-> rots + 1])

\* Faulty variant of that pass: with both children of w BLACK it paints the
\* left child of w RED, not w.  C34 detects it.
fixUpEraseLeftBlack_PaintsNephew(t, x, w, rots) ==
    IF t.color[t.left[w]] = BLACK /\ t.color[t.right[w]] = BLACK
    THEN [t |-> [t EXCEPT !.color[t.left[w]] = RED], x |-> t.parent[x],
          rots |-> rots]
    ELSE IF t.color[t.right[w]] = BLACK
    THEN LET t1 == Do(t,  LAMBDA s : [s EXCEPT !.color[s.left[w]] = BLACK])
             t2 == Do(t1, LAMBDA s : [s EXCEPT !.color[w] = RED])
             t3 == Do(t2, LAMBDA s : rotateRight(s, w))
         IN  Do(t3, LAMBDA s :
                fixUpEraseLeftOuter(s, x, s.right[s.parent[x]], rots + 1))
    ELSE fixUpEraseLeftOuter(t, x, w, rots)

\* The pass with x a left child once the sibling w is BLACK.
fixUpEraseLeftBlack(t, x, w, rots) ==
    IF t.color[t.left[w]] = BLACK /\ t.color[t.right[w]] = BLACK
    THEN [t |-> [t EXCEPT !.color[w] = RED], x |-> t.parent[x], rots |-> rots]
    ELSE IF t.color[t.right[w]] = BLACK
    THEN LET t1 == Do(t,  LAMBDA s : [s EXCEPT !.color[s.left[w]] = BLACK])
             t2 == Do(t1, LAMBDA s : [s EXCEPT !.color[w] = RED])
             t3 == Do(t2, LAMBDA s : rotateRight(s, w))
         IN  Do(t3, LAMBDA s :
                fixUpEraseLeftOuter(s, x, s.right[s.parent[x]], rots + 1))
    ELSE fixUpEraseLeftOuter(t, x, w, rots)

\* One pass of the loop of fixUpErase with x a left child.
fixUpEraseLeft(t, x) ==
    LET w == t.right[t.parent[x]] IN
    IF t.color[w] = RED
    THEN LET t1 == Do(t,  LAMBDA s : [s EXCEPT !.color[w] = BLACK])
             t2 == Do(t1, LAMBDA s : [s EXCEPT !.color[s.parent[x]] = RED])
             t3 == Do(t2, LAMBDA s : rotateLeft(s, s.parent[x]))
         IN  Do(t3, LAMBDA s :
                fixUpEraseLeftBlack(s, x, s.right[s.parent[x]], 1))
    ELSE fixUpEraseLeftBlack(t, x, w, 0)

\* The same three with x a right child.
fixUpEraseRightOuter(t, x, w, rots) ==
    LET t1 == Do(t,  LAMBDA s : [s EXCEPT !.color[w] = s.color[s.parent[x]]])
        t2 == Do(t1, LAMBDA s : [s EXCEPT !.color[s.parent[x]] = BLACK])
        t3 == Do(t2, LAMBDA s : [s EXCEPT !.color[s.left[w]] = BLACK])
        t4 == Do(t3, LAMBDA s : rotateRight(s, s.parent[x]))
    IN  Do(t4, LAMBDA s : [t |-> s, x |-> s.m_root, rots |-> rots + 1])

fixUpEraseRightBlack(t, x, w, rots) ==
    IF t.color[t.right[w]] = BLACK /\ t.color[t.left[w]] = BLACK
    THEN [t |-> [t EXCEPT !.color[w] = RED], x |-> t.parent[x], rots |-> rots]
    ELSE IF t.color[t.left[w]] = BLACK
    THEN LET t1 == Do(t,  LAMBDA s : [s EXCEPT !.color[s.right[w]] = BLACK])
             t2 == Do(t1, LAMBDA s : [s EXCEPT !.color[w] = RED])
             t3 == Do(t2, LAMBDA s : rotateLeft(s, w))
         IN  Do(t3, LAMBDA s :
                fixUpEraseRightOuter(s, x, s.left[s.parent[x]], rots + 1))
    ELSE fixUpEraseRightOuter(t, x, w, rots)

fixUpEraseRight(t, x) ==
    LET w == t.left[t.parent[x]] IN
    IF t.color[w] = RED
    THEN LET t1 == Do(t,  LAMBDA s : [s EXCEPT !.color[w] = BLACK])
             t2 == Do(t1, LAMBDA s : [s EXCEPT !.color[s.parent[x]] = RED])
             t3 == Do(t2, LAMBDA s : rotateRight(s, s.parent[x]))
         IN  Do(t3, LAMBDA s :
                fixUpEraseRightBlack(s, x, s.left[s.parent[x]], 1))
    ELSE fixUpEraseRightBlack(t, x, w, 0)

RECURSIVE fixUpEraseLoop(_, _, _)
fixUpEraseLoop(t, x, st) ==
    IF ~(x # t.m_root /\ t.color[x] = BLACK) THEN [t |-> t, x |-> x, st |-> st]
    ELSE Do(IF x = t.left[t.parent[x]]
            THEN fixUpEraseLeft(t, x) ELSE fixUpEraseRight(t, x),
            LAMBDA r : fixUpEraseLoop(r.t, r.x, Worked(st, r.rots)))

\* Faulty variant of fixUpErase: the loop is skipped, x is only painted
\* BLACK.  C4 detects it.
fixUpErase_NoLoop(t, x) == [t |-> [t EXCEPT !.color[x] = BLACK], st |-> NoWork]

\* fixUpErase(x): the tree afterwards and the work of the loop.
fixUpErase(t, x) ==
    Do(fixUpEraseLoop(t, x, NoWork),
       LAMBDA r : [t |-> [r.t EXCEPT !.color[r.x] = BLACK], st |-> r.st])

\* Faulty variant of the two-child branch: the statement
\* y->size -= y->right->size is missing, so y keeps the count of the right
\* subtree it leaves behind.  C31 detects it.
eraseTwoChildren_KeepsRightSize(t, z) ==
    LET y  == min(t, t.right[z])
        y_original_color == t.color[y]
        x  == t.right[y]
        t1 == IF t.parent[y] = z
              THEN [t EXCEPT !.parent[x] = y]
              ELSE
                LET a == updateSize(t, t.parent[y], z, MinusOne)
                    c == Do(a, LAMBDA s : transplant(s, y, s.right[y]))
                    d == Do(c, LAMBDA s : [s EXCEPT !.right[y] = s.right[z]])
                    e == Do(d, LAMBDA s : [s EXCEPT !.parent[s.right[y]] = y])
                IN  Do(e, LAMBDA s : [s EXCEPT !.size[y] = Plus(@, s.size[s.right[y]])])
        t2 == transplant(t1, z, y)
        t3 == Do(t2, LAMBDA s : [s EXCEPT !.left[y] = s.left[z]])
        t4 == Do(t3, LAMBDA s : [s EXCEPT !.parent[s.left[y]] = y])
        t5 == Do(t4, LAMBDA s : [s EXCEPT !.color[y] = s.color[z]])
        t6 == Do(t5, LAMBDA s : [s EXCEPT !.size[y] = Plus(@, s.size[s.left[y]])])
    IN  [t |-> t6, x |-> x, y_original_color |-> y_original_color]

\* The two-child branch of erase(Node*): y = min(z->right) takes z's place.
\* Gives the tree after the relinking together with x and y's original colour.
eraseTwoChildren(t, z) ==
    LET y  == min(t, t.right[z])
        y_original_color == t.color[y]
        x  == t.right[y]
        t1 == IF t.parent[y] = z
              THEN [t EXCEPT !.parent[x] = y]
              ELSE
                LET a == updateSize(t, t.parent[y], z, MinusOne)
                    b == Do(a, LAMBDA s : [s EXCEPT !.size[y] = Minus(@, s.size[s.right[y]])])
                    c == Do(b, LAMBDA s : transplant(s, y, s.right[y]))
                    d == Do(c, LAMBDA s : [s EXCEPT !.right[y] = s.right[z]])
                    e == Do(d, LAMBDA s : [s EXCEPT !.parent[s.right[y]] = y])
                IN  Do(e, LAMBDA s : [s EXCEPT !.size[y] = Plus(@, s.size[s.right[y]])])
        t2 == transplant(t1, z, y)
        t3 == Do(t2, LAMBDA s : [s EXCEPT !.left[y] = s.left[z]])
        t4 == Do(t3, LAMBDA s : [s EXCEPT !.parent[s.left[y]] = y])
        t5 == Do(t4, LAMBDA s : [s EXCEPT !.color[y] = s.color[z]])
        t6 == Do(t5, LAMBDA s : [s EXCEPT !.size[y] = Plus(@, s.size[s.left[y]])])
    IN  [t |-> t6, x |-> x, y_original_color |-> y_original_color]

\* The three structural cases of erase(Node*), on the tree whose ancestor
\* sizes are already reduced.
eraseSplice(t, z) ==
    IF t.left[z] = t.m_nil
    THEN [t |-> transplant(t, z, t.right[z]), x |-> t.right[z],
          y_original_color |-> t.color[z]]
    ELSE IF t.right[z] = t.m_nil
    THEN [t |-> transplant(t, z, t.left[z]), x |-> t.left[z],
          y_original_color |-> t.color[z]]
    ELSE eraseTwoChildren(t, z)

\* Faulty variant of erase(Node*) up to the fixup: the returned iterator is
\* on x, the node that moved into the gap, not on the successor of z.  C14
\* detects it.
eraseRelink_ReturnsX(t, z) ==
    Do(updateSize(t, t.parent[z], t.m_nil, MinusOne), LAMBDA s :
       Do(eraseSplice(s, z), LAMBDA r :
          [t |-> r.t, x |-> r.x, y_original_color |-> r.y_original_color,
           it |-> r.x]))

\* erase(Node* z) up to the fixup: sizes of the ancestors, the successor for
\* the returned iterator, and the relinking.
eraseRelink(t, z) ==
    Do(updateSize(t, t.parent[z], t.m_nil, MinusOne), LAMBDA s :
       Do(eraseSplice(s, z), LAMBDA r :
          [t |-> r.t, x |-> r.x, y_original_color |-> r.y_original_color,
           it |-> successor(s, z)]))

\* The branch erase(Node* z) takes: z has no left child, z has no right
\* child, or z has both and its successor y is its right child or lies
\* deeper in the right subtree.
eraseBranch(t, z) ==
    IF t.left[z] = t.m_nil THEN "no_left"
    ELSE IF t.right[z] = t.m_nil THEN "no_right"
    ELSE IF t.parent[min(t, t.right[z])] = z THEN "successor_is_child"
    ELSE "successor_is_deeper"

\* erase(Node* z): the tree afterwards, the node of the returned iterator and
\* the work of the call.  assert_ok records the assertion on the sentinel's
\* colour.
eraseNode(t, z) ==
    Do(eraseRelink(t, z), LAMBDA r :
       Do(IF r.y_original_color = BLACK THEN fixUpErase(r.t, r.x)
          ELSE [t |-> r.t, st |-> NoWork], LAMBDA f :
          Do([f.t EXCEPT !.parent[f.t.m_nil] = f.t.m_nil], LAMBDA s :
             [t |-> DeleteNode(s, z), node |-> r.it,
              assert_ok |-> (s.color[s.m_nil] = BLACK),
              st |-> [f.st EXCEPT !.splice = eraseBranch(t, z)]])))

\* Faulty variant of erase(const Key&): the node search returns is erased
\* without the test for the sentinel.  C13 detects it.
erase_NoTest(t, key) == eraseNode(t, search(t, key))

\* erase(const Key& key)
erase(t, key) ==
    Do(search(t, key), LAMBDA z :
       IF z = t.m_nil
       THEN [t |-> t, node |-> t.m_nil, assert_ok |-> TRUE, st |-> NoWork]
       ELSE eraseNode(t, z))

(***************************************************************************)
(* Order statistics and the other queries                                  *)
(***************************************************************************)
\* Faulty variant of the loop of orderOfKey: on the way left the right
\* subtree is not taken off the count.  C9 detects it.
RECURSIVE orderOfKeyLoop_KeepRight(_, _, _, _)
orderOfKeyLoop_KeepRight(t, key, x, current) ==
    IF x # t.m_nil /\ notEqual(key, t.key[x])
    THEN IF CMP(key, t.key[x])
         THEN orderOfKeyLoop_KeepRight(t, key, t.left[x], Minus(current, 1))
         ELSE orderOfKeyLoop_KeepRight(t, key, t.right[x], current)
    ELSE [x |-> x, current |-> current]

RECURSIVE orderOfKeyLoop(_, _, _, _)
orderOfKeyLoop(t, key, x, current) ==
    IF x # t.m_nil /\ notEqual(key, t.key[x])
    THEN IF CMP(key, t.key[x])
         THEN LET c1 == Minus(current, 1)
                  c2 == IF t.right[x] # t.m_nil
                        THEN Minus(c1, t.size[t.right[x]]) ELSE c1
              IN  orderOfKeyLoop(t, key, t.left[x], c2)
         ELSE orderOfKeyLoop(t, key, t.right[x], current)
    ELSE [x |-> x, current |-> current]

\* Faulty variant of orderOfKey: the node found is not taken off the count.
\* C6 detects it.
orderOfKey_CountsSelf(t, key) ==
    LET r == orderOfKeyLoop(t, key, t.m_root, t.size[t.m_root])
    IN  IF t.right[r.x] # t.m_nil
        THEN Minus(r.current, t.size[t.right[r.x]]) ELSE r.current

orderOfKey(t, key) ==
    LET r  == orderOfKeyLoop(t, key, t.m_root, t.size[t.m_root])
        c1 == IF t.right[r.x] # t.m_nil
              THEN Minus(r.current, t.size[t.right[r.x]]) ELSE r.current
    IN  IF r.x # t.m_nil THEN Minus(c1, 1) ELSE c1

find(t, key) == search(t, key)

\* Faulty variant of the loop of findByOrder: a step to the right does not
\* count the node it leaves.  C10 detects it.
RECURSIVE findByOrderLoop_NoPlusOne(_, _, _, _)
findByOrderLoop_NoPlusOne(t, order, x, current) ==
    IF x # t.m_nil /\ current # order
    THEN IF current > order
         THEN LET c1 == Minus(current, t.size[t.left[x]])
                  x1 == t.left[x]
              IN  findByOrderLoop_NoPlusOne(t, order, x1,
                                            Plus(c1, t.size[t.left[x1]]))
         ELSE LET x1 == t.right[x]
              IN  findByOrderLoop_NoPlusOne(t, order, x1,
                                            Plus(current, t.size[t.left[x1]]))
    ELSE x

RECURSIVE findByOrderLoop(_, _, _, _)
findByOrderLoop(t, order, x, current) ==
    IF x # t.m_nil /\ current # order
    THEN IF current > order
         THEN LET c1 == Minus(current, t.size[t.left[x]])
                  x1 == t.left[x]
              IN  findByOrderLoop(t, order, x1, Plus(c1, t.size[t.left[x1]]))
         ELSE LET x1 == t.right[x]
              IN  findByOrderLoop(t, order, x1,
                                  Plus(current, Plus(1, t.size[t.left[x1]])))
    ELSE x

\* Faulty variant of findByOrder: ranks are taken as 1-based.  C7 detects it.
findByOrder_OneBased(t, order) ==
    findByOrderLoop(t, order, t.m_root, Plus(t.size[t.left[t.m_root]], 1))

\* Faulty variant of findByOrder: a rank past the end is clamped to the last
\* element.  C8 detects it.
findByOrder_Clamped(t, order) ==
    IF order >= t.size[t.m_root] THEN max(t, t.m_root)
    ELSE findByOrderLoop(t, order, t.m_root, t.size[t.left[t.m_root]])

findByOrder(t, order) ==
    findByOrderLoop(t, order, t.m_root, t.size[t.left[t.m_root]])

size(t) == t.size[t.m_root]

empty(t) == t.size[t.m_root] = 0

end(t) == t.m_nil

\* min() and max() of the tree, as opposed to min(Node*) and max(Node*).
minOfTree(t) == min(t, t.m_root)

maxOfTree(t) == max(t, t.m_root)

begin(t) == findByOrder(t, 0)

\* ConstIterator: the model of an iterator on tree t is its m_node.
operatorIncrement(t, m_node) == successor(t, m_node)

operatorDecrement(t, m_node) == predecessor(t, m_node)

operatorDereference(t, m_node) == t.key[m_node]

operatorEqual(m_node, other) == m_node = other

operatorNotEqual(m_node, other) == m_node # other

\* The loop of eraseTree over its queue.
RECURSIVE eraseTreeLoop(_, _)
eraseTreeLoop(t, buffor) ==
    IF buffor = << >> THEN t
    ELSE LET x  == Head(buffor)
             b1 == Tail(buffor)
             b2 == IF t.left[x] # t.m_nil THEN Append(b1, t.left[x]) ELSE b1
             b3 == IF t.right[x] # t.m_nil THEN Append(b2, t.right[x]) ELSE b2
         IN  eraseTreeLoop(DeleteNode(t, x), b3)

eraseTree(t, root) ==
    IF root = t.m_nil THEN t ELSE eraseTreeLoop(t, << root >>)

\* Faulty variant of clear: m_root is not set back to the sentinel.  C20
\* detects it.
clear_KeepsRoot(t) == eraseTree(t, t.m_root)

clear(t) ==
    LET t1 == eraseTree(t, t.m_root)
    IN  [t1 EXCEPT !.m_root = t1.m_nil]

(***************************************************************************)
(* Copy, move and destruction.  Several tree objects live in one heap; an  *)
(* object is its pair of members, and a member function runs on the heap   *)
(* record whose m_nil and m_root are those of *this.                       *)
(***************************************************************************)
\* The members of the object the heap record is viewed through.
Handle(t) == [m_nil |-> t.m_nil, m_root |-> t.m_root]

\* The heap viewed through the object h.
This(t, h) == [t EXCEPT !.m_nil = h.m_nil, !.m_root = h.m_root]

\* Faulty variant of the loop of deepCopy: right children are not queued.
\* C24 detects it.
RECURSIVE deepCopyLoop_LeftOnly(_, _, _)
deepCopyLoop_LeftOnly(t, src, buffor) ==
    IF buffor = << >> THEN t
    ELSE LET x == Head(buffor) IN
         Do(insert(t, t.key[x]).t, LAMBDA s :
            deepCopyLoop_LeftOnly(s, src,
                IF s.left[x] # src.m_nil THEN Append(Tail(buffor), s.left[x])
                                         ELSE Tail(buffor)))

\* The loop of deepCopy(src, dst) over its queue; *this is dst.
RECURSIVE deepCopyLoop(_, _, _)
deepCopyLoop(t, src, buffor) ==
    IF buffor = << >> THEN t
    ELSE LET x == Head(buffor) IN
         Do(insert(t, t.key[x]).t, LAMBDA s :
            LET b1 == Tail(buffor)
                b2 == IF s.left[x] # src.m_nil THEN Append(b1, s.left[x]) ELSE b1
                b3 == IF s.right[x] # src.m_nil THEN Append(b2, s.right[x]) ELSE b2
            IN  deepCopyLoop(s, src, b3))

deepCopy(t, src) ==
    IF src.m_root = src.m_nil THEN t
    ELSE deepCopyLoop(t, src, << src.m_root >>)

\* RedBlackTree(const RedBlackTree& other): the heap viewed through the new
\* object.
copyConstruct(t, that) == deepCopy(defaultConstruct(t), that)

deleteAllMemory(t) ==
    Do(eraseTree(t, t.m_root), LAMBDA s :
       [DeleteNode(s, s.m_nil) EXCEPT !.m_nil = Null, !.m_root = Null])

\* ~RedBlackTree()
destructor(t) == deleteAllMemory(t)

\* `return *this' of an operator= that returns RedBlackTree by value: the
\* returned temporary is copy-constructed from *this and destroyed at the end
\* of the assignment expression.
returnThis(t) == This(destructor(copyConstruct(t, Handle(t))), Handle(t))

\* RedBlackTree(RedBlackTree&& other): the heap viewed through the new
\* object, and the members of other afterwards.
moveConstruct(t, that) ==
    LET c == NewCell(t, SentinelCell(t)) IN
    Do(Node(t, c, DefaultKey, 0, Null, Null, Null, BLACK), LAMBDA s :
       [t |-> [s EXCEPT !.m_nil = that.m_nil, !.m_root = that.m_root],
        that |-> [m_nil |-> c, m_root |-> c]])

\* operator=(const RedBlackTree& other); same is &other == this.
copyAssign(t, that, same) ==
    IF same THEN returnThis(t)
    ELSE returnThis(deepCopy(t, that))

\* Faulty variant of the move assignment: the nodes *this owned are not
\* deleted.  C23 detects it.
moveAssign_NoDelete(t, that, same) ==
    IF same THEN [t |-> returnThis(t), that |-> Handle(t)]
    ELSE LET c == NewCell(t, SentinelCell(t)) IN
         Do(Node(t, c, DefaultKey, 0, Null, Null, Null, BLACK), LAMBDA s :
            [t |-> returnThis([s EXCEPT !.m_nil = that.m_nil,
                                        !.m_root = that.m_root]),
             that |-> [m_nil |-> c, m_root |-> c]])

\* operator=(RedBlackTree&& other): the heap viewed through *this, and the
\* members of other afterwards.
moveAssign(t, that, same) ==
    IF same THEN [t |-> returnThis(t), that |-> Handle(t)]
    ELSE Do(deleteAllMemory(t), LAMBDA d :
            LET c == NewCell(d, SentinelCell(d)) IN
            Do(Node(d, c, DefaultKey, 0, Null, Null, Null, BLACK), LAMBDA s :
               [t |-> returnThis([s EXCEPT !.m_nil = that.m_nil,
                                           !.m_root = that.m_root]),
                that |-> [m_nil |-> c, m_root |-> c]]))

(***************************************************************************)
(* Reads through a null pointer.  The sentinel a move leaves the source    *)
(* with has null links; orderOfKey and findByOrder read the size of the    *)
(* node a link of the sentinel points to.  The operators below follow the  *)
(* same paths as the functions and say whether such a read is through Null.*)
(***************************************************************************)
\* orderOfKey: `x->right->size' after the loop.
orderOfKeyFaults(t, key) ==
    t.right[orderOfKeyLoop(t, key, t.m_root, t.size[t.m_root]).x] = Null

\* The loop of findByOrder: `x->left->size' after x has moved.
RECURSIVE findByOrderLoopFaults(_, _, _, _)
findByOrderLoopFaults(t, order, x, current) ==
    IF x # t.m_nil /\ current # order
    THEN IF current > order
         THEN LET c1 == Minus(current, t.size[t.left[x]])
                  x1 == t.left[x]
              IN  \/ t.left[x1] = Null
                  \/ findByOrderLoopFaults(t, order, x1,
                                           Plus(c1, t.size[t.left[x1]]))
         ELSE LET x1 == t.right[x]
              IN  \/ t.left[x1] = Null
                  \/ findByOrderLoopFaults(t, order, x1,
                         Plus(current, Plus(1, t.size[t.left[x1]])))
    ELSE FALSE

\* findByOrder: `m_root->left->size' before the loop, then the loop.
findByOrderFaults(t, order) ==
    \/ t.left[t.m_root] = Null
    \/ findByOrderLoopFaults(t, order, t.m_root, t.size[t.left[t.m_root]])

(***************************************************************************)
(* profiling::Stopwatch (src/include/profiling/Stopwatch.hpp).  w is the   *)
(* record of m_started, m_timepoint, m_sum and m_array; t is m_set; tp is  *)
(* the reading of Clock::now() the call takes.  Time points and durations  *)
(* are counts of clock ticks.                                              *)
(***************************************************************************)
Stopwatch_start(w, tp) ==
    Do(w, LAMBDA s : [s EXCEPT !.m_started = TRUE, !.m_timepoint = tp])

\* Faulty variant of stop: no test of m_started.  C27 detects it.
Stopwatch_stop_NoThrow(w, t, tp) ==
    LET w1 == [w EXCEPT !.m_started = FALSE,
                        !.m_array = Append(@, tp - w.m_timepoint),
                        !.m_timepoint = tp,
                        !.m_sum = @ + (tp - w.m_timepoint)]
    IN  [w |-> w1, t |-> insert(t, tp - w.m_timepoint).t, thrown |-> FALSE]

\* stop(); thrown is whether it left by throwing std::logic_error.
Stopwatch_stop(w, t, tp) ==
    IF ~w.m_started THEN [w |-> w, t |-> t, thrown |-> TRUE]
    ELSE LET w1 == [w EXCEPT !.m_started = FALSE]
             w2 == [w1 EXCEPT !.m_array = Append(@, tp - w1.m_timepoint)]
             w3 == [w2 EXCEPT !.m_timepoint = tp]
             t1 == insert(t, w3.m_array[Len(w3.m_array)]).t
             w4 == [w3 EXCEPT !.m_sum = @ + w3.m_array[Len(w3.m_array)]]
         IN  [w |-> w4, t |-> t1, thrown |-> FALSE]

Stopwatch_clear(w, t) ==
    [w |-> [w EXCEPT !.m_timepoint = 0, !.m_started = FALSE, !.m_sum = 0,
                     !.m_array = << >>],
     t |-> clear(t)]

Stopwatch_size(w) == Len(w.m_array)

\* std::chrono::duration_cast<Duration> of a count d of clock ticks, where
\* one unit of Duration is Duration ticks: the quotient, truncated.
duration_cast(Duration, d) == d \div Duration

\* Faulty variant of median: the second index is always the first.  C28
\* detects it.
Stopwatch_median_OneIndex(t, Duration) ==
    IF empty(t) THEN [value |-> 0, idx1 |-> 0, idx2 |-> 0]
    ELSE LET idx1 == size(t) \div 2
             v1   == operatorDereference(t, findByOrder(t, idx1))
         IN  [value |-> duration_cast(Duration, v1 + v1) \div 2,
              idx1 |-> idx1, idx2 |-> idx1]

\* median<Duration>(): the value returned and the two ranks it selected.
\* sz >> 1 is sz \div 2, sz & 1 is sz % 2 and sz & ~1 is sz - sz % 2.
Stopwatch_median(t, Duration) ==
    IF empty(t) THEN [value |-> 0, idx1 |-> 0, idx2 |-> 0]
    ELSE LET sz   == size(t)
             idx1 == sz \div 2
             idx2 == idx1 - (IF (sz % 2 = 0) /\ (sz - (sz % 2) # 0) THEN 1 ELSE 0)
             v1   == operatorDereference(t, findByOrder(t, idx1))
             v2   == operatorDereference(t, findByOrder(t, idx2))
         IN  [value |-> duration_cast(Duration, v1 + v2) \div 2,
              idx1 |-> idx1, idx2 |-> idx2]

(***************************************************************************)
(* The caller: one tree, and the value the last call returned.            *)
(*   ret.op    the member function called last                            *)
(*   ret.arg   its argument (0 if it has none)                            *)
(*   ret.node  the node of the returned iterator (m_nil if none)          *)
(*   ret.num   the returned size_t (0 if none)                            *)
(*   ret.flag  the returned bool (FALSE if none)                          *)
(*   ret.work  the iterations and rotations of the loop the call ran, and  *)
(*             the branch by which erase took the node out                 *)
(***************************************************************************)
VARIABLES tree, ret

(***************************************************************************)
(* State of the programs that hold more than one tree.                    *)
(*   other  a second tree object in the same heap: its m_nil and m_root,  *)
(*          both Null while the object does not exist                     *)
(*   made   for each of the two objects, the special member function that *)
(*          last gave it its sentinel or took it away                     *)
(*   who    the object the last call was made on (this) and the object    *)
(*          passed to it (that)                                           *)
(*   fault  whether the last call read through a null pointer, and        *)
(*          whether the process survived it; "assert_failed" once the     *)
(*          assertion at the end of erase has failed                      *)
(*   watch  the fields of a Stopwatch other than m_set, which is `tree'   *)
(*   now    the reading of Clock::now()                                   *)
(***************************************************************************)
VARIABLES other, made, who, fault, watch, now

rest == << other, made, who, fault, watch, now >>

vars == << tree, ret, other, made, who, fault, watch, now >>

\* Ranks a caller asks for: in range, just out of range, and SIZE_MAX.
Orders == (0 .. (NumKeys + 1)) \cup {MinusOne}

\* The keys and ranks used by the caller that also issues queries.
CallerKeys == 0 .. (NumCallerKeys - 1)

CallerOrders == (0 .. (NumCallerKeys + 1)) \cup {MinusOne}

Returned(op, arg, node, num, flag, work) ==
    [op |-> op, arg |-> arg, node |-> node, num |-> num, flag |-> flag,
     work |-> work]

\* Stopwatch w{}: every member is value-initialised.
Stopwatch ==
    [m_started |-> FALSE, m_timepoint |-> 0, m_sum |-> 0, m_array |-> << >>]

Init ==
    /\ tree = RedBlackTree
    /\ ret = Returned("RedBlackTree", 0, RedBlackTree.m_nil, 0, FALSE, NoWork)
    /\ other = [m_nil |-> Null, m_root |-> Null]
    /\ made = [a |-> "constructed", b |-> "none"]
    /\ who = [this |-> "a", that |-> "a"]
    /\ fault = "none"
    /\ watch = Stopwatch
    /\ now = 0

Insert(key) ==
    LET r == insert(tree, key) IN
    /\ tree' = r.t
    /\ ret' = Returned("insert", key, r.node, 0, r.inserted, r.st)
    /\ UNCHANGED rest

\* A failed assert(m_nil->color == BLACK) at the end of erase aborts the
\* program; fault records it.
Erase(key) ==
    LET r == erase(tree, key) IN
    /\ tree' = r.t
    /\ ret' = Returned("erase", key, r.node, 0, FALSE, r.st)
    /\ fault' = IF r.assert_ok THEN fault ELSE "assert_failed"
    /\ UNCHANGED << other, made, who, watch, now >>

\* ret.work.iters of clear is the number of nodes the loop of eraseTree
\* destroyed.
Clear ==
    /\ tree' = clear(tree)
    /\ ret' = Returned("clear", 0, tree'.m_nil, 0, FALSE,
                       [NoWork EXCEPT !.iters = Cardinality(tree.live \ tree'.live)])
    /\ UNCHANGED rest

OrderOfKey(key) ==
    /\ ret' = Returned("orderOfKey", key, tree.m_nil, orderOfKey(tree, key),
                       FALSE, NoWork)
    /\ UNCHANGED tree
    /\ UNCHANGED rest

\* Faulty variant of find: a node that is found and is not the root is
\* rotated one level up, as a self-adjusting tree would do.  C26 detects it.
Find_RotatesUp(key) ==
    LET x == find(tree, key)
        p == tree.parent[x]
    IN  /\ ret' = Returned("find", key, x, 0, FALSE, NoWork)
        /\ tree' = IF x = tree.m_nil \/ p = tree.m_nil THEN tree
                   ELSE IF x = tree.left[p] THEN rotateRight(tree, p)
                   ELSE rotateLeft(tree, p)
        /\ UNCHANGED rest

Find(key) ==
    /\ ret' = Returned("find", key, find(tree, key), 0, FALSE, NoWork)
    /\ UNCHANGED tree
    /\ UNCHANGED rest

FindByOrder(order) ==
    /\ ret' = Returned("findByOrder", order, findByOrder(tree, order), 0,
                       FALSE, NoWork)
    /\ UNCHANGED tree
    /\ UNCHANGED rest

Size ==
    /\ ret' = Returned("size", 0, tree.m_nil, size(tree), empty(tree), NoWork)
    /\ UNCHANGED tree
    /\ UNCHANGED rest

Begin ==
    /\ ret' = Returned("begin", 0, begin(tree), 0, FALSE, NoWork)
    /\ UNCHANGED tree
    /\ UNCHANGED rest

Min ==
    /\ ret' = Returned("min", 0, minOfTree(tree), 0, FALSE, NoWork)
    /\ UNCHANGED tree
    /\ UNCHANGED rest

Max ==
    /\ ret' = Returned("max", 0, maxOfTree(tree), 0, FALSE, NoWork)
    /\ UNCHANGED tree
    /\ UNCHANGED rest

\* The caller's loop
\*     for (auto it = t.begin(); it != t.end(); ++it) visit(*it);
\* forEach gives the keys visited, in the order of the visits.  A loop that
\* has made more visits than there are cells will not end; the model stops
\* it there.
RECURSIVE forEachLoop(_, _, _)
forEachLoop(t, it, visited) ==
    IF operatorNotEqual(it, end(t)) /\ Len(visited) <= Cardinality(Cells)
    THEN forEachLoop(t, operatorIncrement(t, it),
                     Append(visited, operatorDereference(t, it)))
    ELSE visited

forEach(t) == forEachLoop(t, begin(t), << >>)

\* The loop run by the caller: ret.num is the number of visits and ret.node
\* the position the loop ended on.
ForEach ==
    /\ ret' = Returned("forEach", 0, end(tree), Len(forEach(tree)), FALSE,
                       NoWork)
    /\ UNCHANGED tree
    /\ UNCHANGED rest

End ==
    /\ ret' = Returned("end", 0, end(tree), 0, FALSE, NoWork)
    /\ UNCHANGED tree
    /\ UNCHANGED rest

\* The calls that return an iterator; ret.node is its m_node.
IteratorOps ==
    {"insert", "erase", "find", "findByOrder", "begin", "min", "max", "end",
     "increment", "decrement"}

\* ++it on the iterator the last call returned.  The caller advances only a
\* position that is not end(); ret.arg is the key the iterator was on.
Increment ==
    /\ ret.op \in IteratorOps
    /\ operatorNotEqual(ret.node, end(tree))
    /\ ret' = Returned("increment", operatorDereference(tree, ret.node),
                       operatorIncrement(tree, ret.node), 0, FALSE, NoWork)
    /\ UNCHANGED tree
    /\ UNCHANGED rest

\* --it on the iterator the last call returned.  The caller moves back only
\* from a position that is neither end() nor begin().
Decrement ==
    /\ ret.op \in IteratorOps
    /\ operatorNotEqual(ret.node, end(tree))
    /\ operatorNotEqual(ret.node, begin(tree))
    /\ ret' = Returned("decrement", operatorDereference(tree, ret.node),
                       operatorDecrement(tree, ret.node), 0, FALSE, NoWork)
    /\ UNCHANGED tree
    /\ UNCHANGED rest

\* A caller that mutates and queries, over CallerKeys.
Next ==
    \/ \E key \in CallerKeys : Insert(key)
    \/ \E key \in CallerKeys : Erase(key)
    \/ Clear
    \/ \E key \in CallerKeys \cup {NumCallerKeys} : OrderOfKey(key)
    \/ \E key \in CallerKeys \cup {NumCallerKeys} : Find(key)
    \/ \E order \in CallerOrders : FindByOrder(order)
    \/ Size
    \/ Begin
    \/ Min
    \/ Max
    \/ ForEach
    \/ End
    \/ Increment
    \/ Decrement

Spec == Init /\ [][Next]_vars

\* A caller that only mutates, over all of Keys, and that inserts only keys
\* it has not stored and erases only keys it has stored.  The calls left out
\* (insert of a stored key, erase of an absent key) return before they touch
\* the tree, so this caller builds every tree that insert, erase and clear
\* can build from NumKeys keys.
InsertNew(key) ==
    /\ search(tree, key) = tree.m_nil
    /\ Insert(key)

EraseStored(key) ==
    /\ search(tree, key) # tree.m_nil
    /\ Erase(key)

NextMutations ==
    \/ \E key \in Keys : InsertNew(key)
    \/ \E key \in Keys : EraseStored(key)
    \/ Clear

SpecMutations == Init /\ [][NextMutations]_vars

(***************************************************************************)
(* A program with two tree objects, a and b.  a is the object `tree' is    *)
(* viewed through and exists throughout; b is constructed, assigned and    *)
(* destroyed.  A call that reads through a null pointer has undefined      *)
(* behaviour: either the process is killed, or the call returns with any   *)
(* result.                                                                 *)
(***************************************************************************)
OwnKeys == 0 .. (NumOwnKeys - 1)

OwnOrders == (0 .. NumOwnKeys) \cup {MinusOne}

Objects == {"a", "b"}

\* The members of object o.
Obj(o) == IF o = "a" THEN Handle(tree) ELSE other

Alive(o) == Obj(o).m_nil # Null

\* The heap viewed through object o.
View(o) == This(tree, Obj(o))

Running == fault # "killed"

\* The heap t, viewed through o, is what a call on o left; that is what it
\* left of the members of the object that is not o.
Store(o, t, that) ==
    IF o = "a" THEN tree' = t /\ other' = that
               ELSE tree' = This(t, that) /\ other' = Handle(t)

\* The object that is not o.
Peer(o) == IF o = "a" THEN "b" ELSE "a"

\* The outcomes of a call on o that read through a null pointer: the process
\* is killed, or the call returns some position of o and some number.
Undefined(o, op, arg) ==
    \/ /\ fault' = "killed"
       /\ ret' = Returned(op, arg, Obj(o).m_nil, 0, FALSE, NoWork)
    \/ /\ fault' = "null_read"
       /\ \E node \in {Obj(o).m_nil, Obj(o).m_root}, num \in {0, MinusOne} :
             ret' = Returned(op, arg, node, num, FALSE, NoWork)

OwnInsert(o, key) ==
    LET r == insert(View(o), key) IN
    /\ Running /\ Alive(o)
    /\ Store(o, r.t, Obj(Peer(o)))
    /\ ret' = Returned("insert", key, r.node, 0, r.inserted, r.st)
    /\ who' = [this |-> o, that |-> o]
    /\ fault' = "none"
    /\ UNCHANGED << made, watch, now >>

OwnErase(o, key) ==
    LET r == erase(View(o), key) IN
    /\ Running /\ Alive(o)
    /\ Store(o, r.t, Obj(Peer(o)))
    /\ ret' = Returned("erase", key, r.node, 0, FALSE, r.st)
    /\ who' = [this |-> o, that |-> o]
    /\ fault' = "none"
    /\ UNCHANGED << made, watch, now >>

OwnClear(o) ==
    LET t == clear(View(o)) IN
    /\ Running /\ Alive(o)
    /\ Store(o, t, Obj(Peer(o)))
    /\ ret' = Returned("clear", 0, t.m_nil, 0, FALSE,
                       [NoWork EXCEPT !.iters = Cardinality(tree.live \ t.live)])
    /\ who' = [this |-> o, that |-> o]
    /\ fault' = "none"
    /\ UNCHANGED << made, watch, now >>

OwnSize(o) ==
    /\ Running /\ Alive(o) /\ made[o] = "moved_from"
    /\ ret' = Returned("size", 0, Obj(o).m_nil, size(View(o)), empty(View(o)),
                       NoWork)
    /\ who' = [this |-> o, that |-> o]
    /\ fault' = "none"
    /\ UNCHANGED << tree, other, made, watch, now >>

OwnFind(o, key) ==
    /\ Running /\ Alive(o) /\ made[o] = "moved_from"
    /\ ret' = Returned("find", key, find(View(o), key), 0, FALSE, NoWork)
    /\ who' = [this |-> o, that |-> o]
    /\ fault' = "none"
    /\ UNCHANGED << tree, other, made, watch, now >>

OwnOrderOfKey(o, key) ==
    /\ Running /\ Alive(o) /\ made[o] = "moved_from"
    /\ IF orderOfKeyFaults(View(o), key)
       THEN Undefined(o, "orderOfKey", key)
       ELSE /\ fault' = "none"
            /\ ret' = Returned("orderOfKey", key, Obj(o).m_nil,
                               orderOfKey(View(o), key), FALSE, NoWork)
    /\ who' = [this |-> o, that |-> o]
    /\ UNCHANGED << tree, other, made, watch, now >>

OwnFindByOrder(o, order) ==
    /\ Running /\ Alive(o) /\ made[o] = "moved_from"
    /\ IF findByOrderFaults(View(o), order)
       THEN Undefined(o, "findByOrder", order)
       ELSE /\ fault' = "none"
            /\ ret' = Returned("findByOrder", order,
                               findByOrder(View(o), order), 0, FALSE, NoWork)
    /\ who' = [this |-> o, that |-> o]
    /\ UNCHANGED << tree, other, made, watch, now >>

OwnBegin(o) ==
    /\ Running /\ Alive(o) /\ made[o] = "moved_from"
    /\ IF findByOrderFaults(View(o), 0)
       THEN Undefined(o, "begin", 0)
       ELSE /\ fault' = "none"
            /\ ret' = Returned("begin", 0, begin(View(o)), 0, FALSE, NoWork)
    /\ who' = [this |-> o, that |-> o]
    /\ UNCHANGED << tree, other, made, watch, now >>

\* RedBlackTree<Key> b;
DefaultConstruct ==
    LET t == defaultConstruct(tree) IN
    /\ Running /\ ~Alive("b")
    /\ Store("b", t, Handle(tree))
    /\ ret' = Returned("defaultConstruct", 0, t.m_nil, 0, FALSE, NoWork)
    /\ made' = [made EXCEPT !.b = "constructed"]
    /\ who' = [this |-> "b", that |-> "b"]
    /\ fault' = "none"
    /\ UNCHANGED << watch, now >>

\* RedBlackTree<Key> b(a);
CopyConstruct ==
    LET t == copyConstruct(tree, Handle(tree)) IN
    /\ Running /\ ~Alive("b")
    /\ Store("b", t, Handle(tree))
    /\ ret' = Returned("copyConstruct", 0, t.m_nil, 0, FALSE, NoWork)
    /\ made' = [made EXCEPT !.b = "copied"]
    /\ who' = [this |-> "b", that |-> "a"]
    /\ fault' = "none"
    /\ UNCHANGED << watch, now >>

\* RedBlackTree<Key> b(std::move(a));
MoveConstruct ==
    LET r == moveConstruct(tree, Handle(tree)) IN
    /\ Running /\ ~Alive("b")
    /\ Store("b", r.t, r.that)
    /\ ret' = Returned("moveConstruct", 0, r.t.m_nil, 0, FALSE, NoWork)
    /\ made' = [a |-> "moved_from", b |-> "moved_to"]
    /\ who' = [this |-> "b", that |-> "a"]
    /\ fault' = "none"
    /\ UNCHANGED << watch, now >>

\* o = p;
CopyAssign(o, p) ==
    LET t == copyAssign(View(o), Obj(p), o = p) IN
    /\ Running /\ Alive(o) /\ Alive(p)
    /\ Store(o, t, Obj(Peer(o)))
    /\ ret' = Returned("copyAssign", 0, t.m_nil, 0, FALSE, NoWork)
    /\ who' = [this |-> o, that |-> p]
    /\ fault' = "none"
    /\ UNCHANGED << made, watch, now >>

\* o = std::move(p);  ret.work.iters is the size o had before the call, the
\* number of nodes deleteAllMemory destroyed.
MoveAssign(o, p) ==
    LET r == moveAssign(View(o), Obj(p), o = p) IN
    /\ Running /\ Alive(o) /\ Alive(p)
    /\ Store(o, r.t, IF o = p THEN Obj(Peer(o)) ELSE r.that)
    /\ ret' = Returned("moveAssign", 0, r.t.m_nil, 0, FALSE,
                       [NoWork EXCEPT !.iters =
                           IF o = p THEN 0
                           ELSE size(View(o))])
    /\ made' = IF o = p THEN made
               ELSE [made EXCEPT ![o] = "moved_to", ![p] = "moved_from"]
    /\ who' = [this |-> o, that |-> p]
    /\ fault' = "none"
    /\ UNCHANGED << watch, now >>

\* b goes out of scope.
Destroy ==
    LET t == destructor(View("b")) IN
    /\ Running /\ Alive("b")
    /\ Store("b", t, Handle(tree))
    /\ ret' = Returned("destructor", 0, tree.m_nil, 0, FALSE, NoWork)
    /\ made' = [made EXCEPT !.b = "none"]
    /\ who' = [this |-> "b", that |-> "b"]
    /\ fault' = "none"
    /\ UNCHANGED << watch, now >>

NextOwnership ==
    \/ \E o \in Objects, key \in OwnKeys : OwnInsert(o, key)
    \/ \E o \in Objects, key \in OwnKeys : OwnErase(o, key)
    \/ \E o \in Objects : OwnClear(o)
    \/ \E o \in Objects : OwnSize(o)
    \/ \E o \in Objects, key \in OwnKeys : OwnFind(o, key)
    \/ \E o \in Objects, key \in OwnKeys : OwnOrderOfKey(o, key)
    \/ \E o \in Objects, order \in OwnOrders : OwnFindByOrder(o, order)
    \/ \E o \in Objects : OwnBegin(o)
    \/ DefaultConstruct
    \/ CopyConstruct
    \/ MoveConstruct
    \/ \E o \in Objects, p \in Objects : CopyAssign(o, p)
    \/ \E o \in Objects, p \in Objects : MoveAssign(o, p)
    \/ Destroy

SpecOwnership == Init /\ [][NextOwnership]_vars

(***************************************************************************)
(* A program with one Stopwatch.  The steady clock never goes back; a call *)
(* of Clock::now() reads the time of the last reading or a later one.      *)
(***************************************************************************)
\* The clock readings: 0 .. MaxTime.
MaxTime == 6

\* The largest step of the clock between two readings.
MaxTick == 3

\* The number of laps the program records before it calls clear().
MaxLaps == 4

\* The Duration types median is instantiated with, as ticks per unit:
\* Clock::duration itself and a unit of three ticks.
Durations == {1, 3}

\* The readings Clock::now() can return next.
Readings == {tp \in now .. (now + MaxTick) : tp <= MaxTime}

StopwatchStart ==
    \E tp \in Readings :
        /\ now' = tp
        /\ watch' = Stopwatch_start(watch, tp)
        /\ ret' = Returned("start", 0, tree.m_nil, 0, FALSE, NoWork)
        /\ UNCHANGED << tree, other, made, who, fault >>

\* ret.flag is whether stop() threw; ret.arg is the reading it took.
StopwatchStop ==
    \E tp \in Readings :
        LET r == Stopwatch_stop(watch, tree, tp) IN
        /\ watch.m_started => Len(watch.m_array) < MaxLaps
        /\ now' = tp
        /\ watch' = r.w
        /\ tree' = r.t
        /\ ret' = Returned("stop", tp, tree.m_nil, 0, r.thrown, NoWork)
        /\ UNCHANGED << other, made, who, fault >>

StopwatchClear ==
    LET r == Stopwatch_clear(watch, tree) IN
    /\ watch' = r.w
    /\ tree' = r.t
    /\ ret' = Returned("clear", 0, tree.m_nil, 0, FALSE, NoWork)
    /\ UNCHANGED << now, other, made, who, fault >>

StopwatchSize ==
    /\ ret' = Returned("size", 0, tree.m_nil, Stopwatch_size(watch), FALSE,
                       NoWork)
    /\ UNCHANGED << tree, watch, now, other, made, who, fault >>

\* ret.num is the value returned, ret.arg the Duration, and ret.work.iters
\* and ret.work.rots the two ranks median passed to findByOrder.
StopwatchMedian(Duration) ==
    LET r == Stopwatch_median(tree, Duration) IN
    /\ ret' = Returned("median", Duration, tree.m_nil, r.value, FALSE,
                       [NoWork EXCEPT !.iters = r.idx1, !.rots = r.idx2])
    /\ UNCHANGED << tree, watch, now, other, made, who, fault >>

NextStopwatch ==
    \/ StopwatchStart
    \/ StopwatchStop
    \/ StopwatchClear
    \/ StopwatchSize
    \/ \E Duration \in Durations : StopwatchMedian(Duration)

SpecStopwatch == Init /\ [][NextStopwatch]_vars

(***************************************************************************)
(* rotateLeft and rotateRight applied on their own.  The trees they start  *)
(* from are the trees insert builds from up to NumRotKeys keys; a rotation *)
(* is applied at any node that has the child it needs, and again on the    *)
(* trees rotations leave, which are binary search trees of every shape.    *)
(***************************************************************************)
\* Number of distinct key values in the trees that are rotated.
NumRotKeys == 5

RotKeys == 0 .. (NumRotKeys - 1)

\* The tree after the keys of a sequence are inserted in order.
RECURSIVE insertAll(_, _)
insertAll(t, keys) ==
    IF keys = << >> THEN t
    ELSE insertAll(insert(t, Head(keys)).t, Tail(keys))

InitRotations ==
    /\ \E n \in 0 .. NumRotKeys :
          \E keys \in [1 .. n -> RotKeys] :
              tree = insertAll(RedBlackTree, keys)
    /\ ret = Returned("RedBlackTree", 0, RedBlackTree.m_nil, 0, FALSE, NoWork)
    /\ other = [m_nil |-> Null, m_root |-> Null]
    /\ made = [a |-> "constructed", b |-> "none"]
    /\ who = [this |-> "a", that |-> "a"]
    /\ fault = "none"
    /\ watch = Stopwatch
    /\ now = 0

\* ret.node is the node x the rotation was applied at, ret.arg its key.
RotateLeft(x) ==
    /\ x \in tree.live \ {tree.m_nil}
    /\ tree.right[x] # tree.m_nil
    /\ tree' = rotateLeft(tree, x)
    /\ ret' = Returned("rotateLeft", tree.key[x], x, 0, FALSE, NoWork)
    /\ UNCHANGED rest

RotateRight(x) ==
    /\ x \in tree.live \ {tree.m_nil}
    /\ tree.left[x] # tree.m_nil
    /\ tree' = rotateRight(tree, x)
    /\ ret' = Returned("rotateRight", tree.key[x], x, 0, FALSE, NoWork)
    /\ UNCHANGED rest

NextRotations ==
    \/ \E x \in Cells : RotateLeft(x)
    \/ \E x \in Cells : RotateRight(x)

SpecRotations == InitRotations /\ [][NextRotations]_vars

(***************************************************************************)
(* A program that walks a tree with one iterator.  It holds the iterator   *)
(* the last call returned and applies ++ and -- to it wherever it stands,  *)
(* on end() as well.                                                       *)
(***************************************************************************)
\* Number of keys of the walking program.
NumWalkKeys == 6

WalkKeys == 0 .. (NumWalkKeys - 1)

\* The calls whose result the program holds as its iterator.
WalkOps == IteratorOps \cup {"operator++", "operator--"}

\* ++it, from any position; ret.arg is the node the iterator was on.
PreIncrement ==
    /\ ret.op \in WalkOps
    /\ ret' = Returned("operator++", ret.node,
                       operatorIncrement(tree, ret.node), 0, FALSE, NoWork)
    /\ UNCHANGED tree
    /\ UNCHANGED rest

\* --it, from any position; ret.arg is the node the iterator was on.
PreDecrement ==
    /\ ret.op \in WalkOps
    /\ ret' = Returned("operator--", ret.node,
                       operatorDecrement(tree, ret.node), 0, FALSE, NoWork)
    /\ UNCHANGED tree
    /\ UNCHANGED rest

NextWalk ==
    \/ \E key \in WalkKeys : Insert(key)
    \/ \E key \in WalkKeys : Erase(key)
    \/ \E key \in WalkKeys : Find(key)
    \/ Begin
    \/ End
    \/ PreIncrement
    \/ PreDecrement

SpecWalk == Init /\ [][NextWalk]_vars

(***************************************************************************)
(* Vocabulary of the properties                                            *)
(***************************************************************************)
\* The key-bearing nodes the tree owns.
RealNodes(t) == t.live \ {t.m_nil}

\* Size of a subtree as the properties count it: the sentinel counts as 0.
SizeOf(t, n) == IF n = t.m_nil THEN 0 ELSE t.size[n]

\* The nodes of the subtree rooted at n, following child links.
RECURSIVE Subtree(_, _)
Subtree(t, n) ==
    IF n = t.m_nil THEN {}
    ELSE {n} \cup Subtree(t, t.left[n]) \cup Subtree(t, t.right[n])

\* The keys of the subtree rooted at n in left-to-right order.
RECURSIVE InOrder(_, _)
InOrder(t, n) ==
    IF n = t.m_nil THEN << >>
    ELSE InOrder(t, t.left[n]) \o << t.key[n] >> \o InOrder(t, t.right[n])

KeySeq(t) == InOrder(t, t.m_root)

StoredKeys(t) == {t.key[n] : n \in RealNodes(t)}

\* Number of stored keys that compare less than key.
CountLess(t, key) == Cardinality({n \in RealNodes(t) : CMP(t.key[n], key)})

\* The numbers of BLACK nodes on the paths from n down to the sentinel.
RECURSIVE BlackCounts(_, _)
BlackCounts(t, n) ==
    IF n = t.m_nil THEN {0}
    ELSE LET own == IF t.color[n] = BLACK THEN 1 ELSE 0
         IN  {c + own : c \in BlackCounts(t, t.left[n]) \cup BlackCounts(t, t.right[n])}

\* What a returned position denotes: nothing for end(), else the key it
\* dereferences to.
Deref(t, node) == IF node = t.m_nil THEN {} ELSE {t.key[node]}

\* Height of the subtree rooted at n.
RECURSIVE Height(_, _)
Height(t, n) ==
    IF n = t.m_nil THEN 0
    ELSE LET hl == Height(t, t.left[n])
             hr == Height(t, t.right[n])
         IN  1 + (IF hl > hr THEN hl ELSE hr)

(***************************************************************************)
(* C1.  Size invariant: in every state reached by insert, erase and clear, *)
(* every real node n has n.size = 1 + n.left.size + n.right.size, the      *)
(* sentinel counting as 0.                                                 *)
(***************************************************************************)
C1_SizeInvariant ==
    \A n \in RealNodes(tree) :
        tree.size[n] = 1 + SizeOf(tree, tree.left[n]) + SizeOf(tree, tree.right[n])

\* An erase has spliced a node out and its fixup has rotated at least twice,
\* leaving a tree of six or more nodes.
C1_Witness ==
    /\ ret.op = "erase"
    /\ ret.work.rots >= 2
    /\ Cardinality(RealNodes(tree)) >= 6

(***************************************************************************)
(* C2.  BST ordering: for every real node, every key in its left subtree   *)
(* compares less than its key and every key in its right subtree compares  *)
(* greater.                                                                *)
(***************************************************************************)
C2_BstOrdering ==
    \A n \in RealNodes(tree) :
        /\ \A m \in Subtree(tree, tree.left[n]) : CMP(tree.key[m], tree.key[n])
        /\ \A m \in Subtree(tree, tree.right[n]) : CMP(tree.key[n], tree.key[m])

\* An insert has attached a node and its fixup has recoloured and then
\* rotated twice, two levels further up.
C2_Witness ==
    /\ ret.op = "insert"
    /\ ret.flag
    /\ ret.work.iters >= 2
    /\ ret.work.rots = 2

(***************************************************************************)
(* C3.  Red-black colouring: after every insert or erase the root is BLACK *)
(* and no RED node has a RED child.                                        *)
(***************************************************************************)
C3_Colouring ==
    /\ tree.color[tree.m_root] = BLACK
    /\ \A n \in RealNodes(tree) :
          tree.color[n] = RED =>
              /\ tree.color[tree.left[n]] = BLACK
              /\ tree.color[tree.right[n]] = BLACK

\* An erase has run a fixup that rotated three times (RED sibling, then the
\* inner and the outer rotation) and RED nodes remain.
C3_Witness ==
    /\ ret.op = "erase"
    /\ ret.work.rots = 3
    /\ \E n \in RealNodes(tree) : tree.color[n] = RED

(***************************************************************************)
(* C4.  Black-height uniformity: after every insert or erase every path    *)
(* from the root to the sentinel passes the same number of BLACK nodes.   *)
(***************************************************************************)
C4_BlackHeight ==
    Cardinality(BlackCounts(tree, tree.m_root)) = 1

\* An erase has run a fixup whose loop recoloured the sibling and moved the
\* missing BLACK one level up without rotating, in a tree that keeps six or
\* more nodes.
C4_Witness ==
    /\ ret.op = "erase"
    /\ ret.work.iters >= 1
    /\ ret.work.rots = 0
    /\ Cardinality(RealNodes(tree)) >= 6

(***************************************************************************)
(* The reference the tree is compared with: a sorted sequence of distinct  *)
(* keys with the same operations.  A position is the set holding the key   *)
(* it refers to, and the empty set for the end.                            *)
(***************************************************************************)
RefHas(s, key) == \E i \in 1 .. Len(s) : s[i] = key

RefRank(s, key) == Cardinality({i \in 1 .. Len(s) : s[i] < key})

RefSelect(s, order) == IF order < Len(s) THEN {s[order + 1]} ELSE {}

RefFind(s, key) == IF RefHas(s, key) THEN {key} ELSE {}

RefInsert(s, key) ==
    IF RefHas(s, key) THEN s
    ELSE LET r == RefRank(s, key)
         IN  SubSeq(s, 1, r) \o << key >> \o SubSeq(s, r + 1, Len(s))

RefErase(s, key) ==
    IF ~RefHas(s, key) THEN s
    ELSE LET r == RefRank(s, key)
         IN  SubSeq(s, 1, r) \o SubSeq(s, r + 2, Len(s))

\* The position the reference's erase returns: the next larger key.
RefNext(s, key) ==
    IF RefHas(s, key) THEN RefSelect(s, RefRank(s, key) + 1) ELSE {}

\* The reference after the call and what the call returns.
RefCall(s, op, arg) ==
    CASE op = "insert" ->
           [s |-> RefInsert(s, arg), pos |-> {arg}, num |-> 0,
            flag |-> ~RefHas(s, arg)]
      [] op = "erase" ->
           [s |-> RefErase(s, arg), pos |-> RefNext(s, arg), num |-> 0,
            flag |-> FALSE]
      [] op = "clear" ->
           [s |-> << >>, pos |-> {}, num |-> 0, flag |-> FALSE]
      [] op = "orderOfKey" ->
           [s |-> s, pos |-> {}, num |-> RefRank(s, arg), flag |-> FALSE]
      [] op = "find" ->
           [s |-> s, pos |-> RefFind(s, arg), num |-> 0, flag |-> FALSE]
      [] op = "findByOrder" ->
           [s |-> s, pos |-> RefSelect(s, arg), num |-> 0, flag |-> FALSE]
      [] op = "size" ->
           [s |-> s, pos |-> {}, num |-> Len(s), flag |-> (Len(s) = 0)]
      [] op \in {"begin", "min"} ->
           [s |-> s, pos |-> RefSelect(s, 0), num |-> 0, flag |-> FALSE]
      [] op = "max" ->
           [s |-> s, pos |-> IF Len(s) = 0 THEN {} ELSE {s[Len(s)]},
            num |-> 0, flag |-> FALSE]
      [] op = "forEach" ->
           [s |-> s, pos |-> {}, num |-> Len(s), flag |-> FALSE]
      [] op = "end" ->
           [s |-> s, pos |-> {}, num |-> 0, flag |-> FALSE]
      [] op = "increment" ->
           [s |-> s, pos |-> RefNext(s, arg), num |-> 0, flag |-> FALSE]
      [] op = "decrement" ->
           [s |-> s, pos |-> RefSelect(s, RefRank(s, arg) - 1), num |-> 0,
            flag |-> FALSE]

(***************************************************************************)
(* C5.  Refinement of a sorted set: in every step, the call's result is    *)
(* the result the reference gives for the same call on the key sequence    *)
(* the tree held before it, and the tree's key sequence afterwards is the  *)
(* reference's; returned positions are on live nodes.                      *)
(***************************************************************************)
C5_StepMatches ==
    LET e == RefCall(KeySeq(tree), ret'.op, ret'.arg) IN
    /\ KeySeq(tree') = e.s
    /\ ret'.node \in tree'.live
    /\ Deref(tree', ret'.node) = e.pos
    /\ ret'.num = e.num
    /\ ret'.flag = e.flag

C5_Refinement == [][C5_StepMatches]_vars

\* An erase of a stored key has returned the position of its successor.
C5_Witness ==
    /\ ret.op = "erase"
    /\ ret.node # tree.m_nil
    /\ Len(KeySeq(tree)) >= 3
    /\ tree.key[ret.node] = ret.arg + 2

(***************************************************************************)
(* C6.  orderOfKey(key) is the number of stored keys strictly less than   *)
(* key, for every key, present or absent.                                  *)
(***************************************************************************)
C6_OrderOfKey ==
    \A key \in Keys \cup {NumKeys} : orderOfKey(tree, key) = CountLess(tree, key)

\* orderOfKey has been asked for an absent key that lies strictly between
\* stored keys.
C6_Witness ==
    /\ ret.op = "orderOfKey"
    /\ ret.arg \notin StoredKeys(tree)
    /\ ret.num >= 2
    /\ ret.num < size(tree)

(***************************************************************************)
(* C7.  For every rank r with 0 <= r < size(), findByOrder(r) is the node  *)
(* whose key has exactly r stored keys less than it.                       *)
(***************************************************************************)
C7_FindByOrder ==
    \A r \in Orders :
        r < size(tree) =>
            LET x == findByOrder(tree, r) IN
            /\ x \in RealNodes(tree)
            /\ CountLess(tree, tree.key[x]) = r

C7_Witness ==
    /\ ret.op = "findByOrder"
    /\ ret.arg = 3
    /\ size(tree) >= 5
    /\ ret.node \in RealNodes(tree)

(***************************************************************************)
(* C8.  findByOrder(r) is the end position for every r >= size(), also on  *)
(* an empty tree.                                                          *)
(***************************************************************************)
C8_FindByOrderOutOfRange ==
    \A r \in Orders : r >= size(tree) => findByOrder(tree, r) = end(tree)

C8_Witness ==
    /\ ret.op = "findByOrder"
    /\ size(tree) = 3
    /\ ret.arg = 3
    /\ ret.node = end(tree)

(***************************************************************************)
(* C9.  Rank/select round trip: orderOfKey of the key at findByOrder(i)   *)
(* is i, for all 0 <= i < size().                                          *)
(***************************************************************************)
C9_RankOfSelect ==
    \A i \in Orders :
        i < size(tree) => orderOfKey(tree, tree.key[findByOrder(tree, i)]) = i

C9_Witness ==
    /\ ret.op = "orderOfKey"
    /\ ret.num = 2
    /\ size(tree) >= 4
    /\ ret.arg \in StoredKeys(tree)
    /\ findByOrder(tree, 2) # tree.m_root

(***************************************************************************)
(* C10.  Select/rank round trip: for every key k present in the tree,      *)
(* findByOrder(orderOfKey(k)) is the same position as find(k).             *)
(***************************************************************************)
C10_SelectOfRank ==
    \A k \in StoredKeys(tree) :
        /\ find(tree, k) # end(tree)
        /\ findByOrder(tree, orderOfKey(tree, k)) = find(tree, k)

C10_Witness ==
    /\ ret.op = "find"
    /\ ret.node # end(tree)
    /\ ret.node # tree.m_root
    /\ size(tree) >= 4
    /\ orderOfKey(tree, ret.arg) = 1

(***************************************************************************)
(* C11.  insert(key) of a key that is already stored returns the position  *)
(* of the node that holds it together with false, and changes nothing:     *)
(* size(), the order of iteration, the root, and the key, links, colour    *)
(* and size of every node are what they were.                              *)
(***************************************************************************)
C11_StepDuplicate ==
    (ret'.op = "insert" /\ ret'.arg \in StoredKeys(tree)) =>
        /\ ret'.flag = FALSE
        /\ ret'.node \in RealNodes(tree)
        /\ tree.key[ret'.node] = ret'.arg
        /\ size(tree') = size(tree)
        /\ forEach(tree') = forEach(tree)
        /\ tree' = tree

C11_DuplicateInsert == [][C11_StepDuplicate]_vars

\* insert has been called with a key stored below the root of a tree of
\* four or more keys, and has returned false.
C11_Witness ==
    /\ ret.op = "insert"
    /\ ret.flag = FALSE
    /\ ret.node \in RealNodes(tree)
    /\ ret.node # tree.m_root
    /\ size(tree) >= 4

(***************************************************************************)
(* C12.  insert(key) of a key that is not stored returns true with a       *)
(* position that dereferences to key; afterwards size() is one larger,     *)
(* find(key) is that position, and every key stored before is still found. *)
(***************************************************************************)
C12_StepNewKey ==
    (ret'.op = "insert" /\ ret'.arg \notin StoredKeys(tree)) =>
        /\ ret'.flag = TRUE
        /\ ret'.node \in RealNodes(tree')
        /\ operatorDereference(tree', ret'.node) = ret'.arg
        /\ size(tree') = Plus(size(tree), 1)
        /\ find(tree', ret'.arg) = ret'.node
        /\ \A k \in StoredKeys(tree) :
              /\ find(tree', k) # end(tree')
              /\ operatorDereference(tree', find(tree', k)) = k
        /\ StoredKeys(tree') = StoredKeys(tree) \cup {ret'.arg}

C12_InsertNewKey == [][C12_StepNewKey]_vars

\* insert has stored a new key in a tree that then holds six or more, and
\* the fixup has rotated, so the new node is not where it was attached.
C12_Witness ==
    /\ ret.op = "insert"
    /\ ret.flag = TRUE
    /\ ret.work.rots >= 1
    /\ size(tree) >= 6
    /\ find(tree, ret.arg) = ret.node

(***************************************************************************)
(* C13.  erase(key) of a key that is not stored does nothing and returns   *)
(* the end position: size(), the key sequence, the root, the key, links,   *)
(* colour and size of every node and the fields of the sentinel are what   *)
(* they were.                                                              *)
(***************************************************************************)
C13_StepAbsent ==
    (ret'.op = "erase" /\ ret'.arg \notin StoredKeys(tree)) =>
        /\ ret'.node = end(tree)
        /\ size(tree') = size(tree)
        /\ KeySeq(tree') = KeySeq(tree)
        /\ forEach(tree') = forEach(tree)
        /\ tree' = tree

C13_EraseAbsent == [][C13_StepAbsent]_vars

\* erase has been called with a key that is not stored and lies between
\* stored keys of a tree of four or more, and has taken no node out.
C13_Witness ==
    /\ ret.op = "erase"
    /\ ret.work.splice = "none"
    /\ ret.node = end(tree)
    /\ size(tree) >= 4
    /\ \E lo, hi \in StoredKeys(tree) : lo < ret.arg /\ ret.arg < hi

(***************************************************************************)
(* C14.  erase(key) of a stored key returns a position on a live node      *)
(* that holds the smallest stored key greater than key, or the end         *)
(* position when key was the largest, whichever branch took the node out:  *)
(* no left child, no right child, or two children, where the successor     *)
(* moves into the place of the erased node.                                *)
(***************************************************************************)
C14_StepSuccessor ==
    (ret'.op = "erase" /\ ret'.arg \in StoredKeys(tree)) =>
        LET greater == {k \in StoredKeys(tree) : CMP(ret'.arg, k)} IN
        IF greater = {}
        THEN ret'.node = end(tree')
        ELSE /\ ret'.node \in RealNodes(tree')
             /\ operatorDereference(tree', ret'.node) \in greater
             /\ \A k \in greater :
                   ~CMP(k, operatorDereference(tree', ret'.node))

C14_EraseReturnsSuccessor == [][C14_StepSuccessor]_vars

\* erase has taken out a node with two children whose successor lay deeper
\* than its right child; the returned position is on the successor, which
\* now stands where the erased node stood, and the fixup has rotated.
C14_Witness ==
    /\ ret.op = "erase"
    /\ ret.work.splice = "successor_is_deeper"
    /\ ret.work.rots >= 1
    /\ ret.node \in RealNodes(tree)
    /\ tree.left[ret.node] # tree.m_nil
    /\ tree.right[ret.node] # tree.m_nil

(***************************************************************************)
(* C15.  erase(key) of a stored key removes that key and no other:         *)
(* afterwards find(key) is the end position, size() is one smaller, and    *)
(* the loop from begin() to end() yields the keys it yielded before        *)
(* without key, the others in the same order.                              *)
(***************************************************************************)
SeqWithout(s, key) == SelectSeq(s, LAMBDA k : k # key)

C15_StepRemoves ==
    (ret'.op = "erase" /\ ret'.arg \in StoredKeys(tree)) =>
        /\ find(tree', ret'.arg) = end(tree')
        /\ size(tree') = Minus(size(tree), 1)
        /\ forEach(tree') = SeqWithout(forEach(tree), ret'.arg)
        /\ Len(forEach(tree')) = Len(forEach(tree)) - 1

C15_EraseRemovesKey == [][C15_StepRemoves]_vars

\* Keys 5, 3, 8, 1, 4 stored and 3 erased, its successor 4 being its right
\* child: the loop yields 1, 4, 5, 8 and size() is 4.
C15_Witness ==
    /\ ret.op = "erase"
    /\ ret.arg = 3
    /\ ret.work.splice = "successor_is_child"
    /\ forEach(tree) = << 1, 4, 5, 8 >>
    /\ size(tree) = 4

(***************************************************************************)
(* C16.  When erase takes out the last stored key, whatever inserts and    *)
(* erases came before and in whatever order, the tree is empty: size() is  *)
(* 0, empty() is true, the root is the sentinel, begin() equals end(), and *)
(* no real node is left.                                                   *)
(***************************************************************************)
C16_StepLastKey ==
    (ret'.op = "erase" /\ StoredKeys(tree) = {ret'.arg}) =>
        /\ RealNodes(tree') = {}
        /\ size(tree') = 0
        /\ empty(tree')
        /\ tree'.m_root = tree'.m_nil
        /\ operatorEqual(begin(tree'), end(tree'))

C16_EmptyAfterErasingAll == [][C16_StepLastKey]_vars

\* erase has taken out the only node of the tree.
C16_Witness ==
    /\ ret.op = "erase"
    /\ ret.work.splice = "no_left"
    /\ ret.node = end(tree)
    /\ tree.live = {tree.m_nil}
    /\ empty(tree)

(***************************************************************************)
(* C17.  Iteration: the loop that starts at begin() and increments until   *)
(* end() makes size() visits and yields every stored key once, in strictly *)
(* ascending order of the comparator; begin() is findByOrder(0) and is the *)
(* position min() returns, and it is end() on an empty tree.               *)
(***************************************************************************)
C17_Iteration ==
    LET visited == forEach(tree) IN
    /\ Len(visited) = size(tree)
    /\ {visited[i] : i \in 1 .. Len(visited)} = StoredKeys(tree)
    /\ \A i \in 1 .. (Len(visited) - 1) : CMP(visited[i], visited[i + 1])
    /\ operatorEqual(begin(tree), findByOrder(tree, 0))
    /\ operatorEqual(begin(tree), minOfTree(tree))
    /\ (RealNodes(tree) = {} => operatorEqual(begin(tree), end(tree)))

\* The caller has run the loop over a tree of five or more keys whose first
\* position is neither the root nor a child of the root, so that the loop
\* has climbed as well as descended.
C17_Witness ==
    /\ ret.op = "forEach"
    /\ ret.num >= 5
    /\ begin(tree) # tree.m_root
    /\ tree.parent[begin(tree)] # tree.m_root

(***************************************************************************)
(* C18.  find(key) returns a position that dereferences to a key           *)
(* equivalent to key when such a key is stored, and the end position when  *)
(* none is, the empty tree included.                                       *)
(***************************************************************************)
C18_Find ==
    \A key \in Keys \cup {NumKeys} :
        IF \E n \in RealNodes(tree) : equal(tree.key[n], key)
        THEN /\ find(tree, key) \in RealNodes(tree)
             /\ equal(operatorDereference(tree, find(tree, key)), key)
        ELSE operatorEqual(find(tree, key), end(tree))

\* find has returned the position of a stored key two or more levels below
\* the root.
C18_Witness ==
    /\ ret.op = "find"
    /\ ret.node \in RealNodes(tree)
    /\ operatorDereference(tree, ret.node) = ret.arg
    /\ ret.node # tree.m_root
    /\ tree.parent[ret.node] # tree.m_root

(***************************************************************************)
(* C19.  min() returns the position of the smallest stored key and max()   *)
(* the position of the largest; both return the end position when the      *)
(* tree is empty.                                                          *)
(***************************************************************************)
C19_MinMax ==
    IF RealNodes(tree) = {}
    THEN /\ operatorEqual(minOfTree(tree), end(tree))
         /\ operatorEqual(maxOfTree(tree), end(tree))
    ELSE /\ minOfTree(tree) \in RealNodes(tree)
         /\ maxOfTree(tree) \in RealNodes(tree)
         /\ \A k \in StoredKeys(tree) :
               /\ ~CMP(k, operatorDereference(tree, minOfTree(tree)))
               /\ ~CMP(operatorDereference(tree, maxOfTree(tree)), k)

\* max() has returned a position two or more levels below the root of a
\* tree of five or more keys.
C19_Witness ==
    /\ ret.op = "max"
    /\ size(tree) >= 5
    /\ ret.node \in RealNodes(tree)
    /\ ret.node # tree.m_root
    /\ tree.parent[ret.node] # tree.m_root
    /\ \A k \in StoredKeys(tree) : k <= tree.key[ret.node]

(***************************************************************************)
(* C20.  clear() removes every real node and keeps the sentinel: the       *)
(* sentinel is the same node with the same fields, size() is 0, empty() is *)
(* true, begin() equals end(), every find returns end(), and the tree is   *)
(* in the state the constructor leaves, so that every insert that follows  *)
(* does what it does on a newly constructed tree.                          *)
(***************************************************************************)
C20_StepClear ==
    (ret'.op = "clear") =>
        LET nil == tree.m_nil IN
        /\ tree'.m_nil = nil
        /\ tree'.live = {nil}
        /\ tree'.key[nil] = tree.key[nil]
        /\ tree'.size[nil] = tree.size[nil]
        /\ tree'.left[nil] = tree.left[nil]
        /\ tree'.right[nil] = tree.right[nil]
        /\ tree'.parent[nil] = tree.parent[nil]
        /\ tree'.color[nil] = tree.color[nil]
        /\ size(tree') = 0
        /\ empty(tree')
        /\ operatorEqual(begin(tree'), end(tree'))
        /\ \A key \in Keys \cup {NumKeys} :
              operatorEqual(find(tree', key), end(tree'))
        /\ \A key \in Keys : insert(tree', key) = insert(RedBlackTree, key)
        /\ tree' = RedBlackTree

C20_Clear == [][C20_StepClear]_vars

\* clear() has destroyed six or more real nodes.
C20_Witness ==
    /\ ret.op = "clear"
    /\ ret.work.iters >= 6
    /\ tree.live = {tree.m_nil}
    /\ tree.m_root = tree.m_nil

(***************************************************************************)
(* Vocabulary of the properties of programs with two trees                 *)
(***************************************************************************)
\* The members of object o after the step, and the heap after the step
\* viewed through o.
ObjAfter(o) == IF o = "a" THEN Handle(tree') ELSE other'

ViewAfter(o) == This(tree', ObjAfter(o))

\* The cells object o owns in heap view t: its sentinel and its nodes.
Owned(t) == {t.m_nil} \cup Subtree(t, t.m_root)

\* The invariants of C1 to C4 for the tree a heap is viewed through.
TreeInvariants(t) ==
    /\ \A n \in Subtree(t, t.m_root) :
          /\ t.size[n] = 1 + SizeOf(t, t.left[n]) + SizeOf(t, t.right[n])
          /\ \A m \in Subtree(t, t.left[n]) : CMP(t.key[m], t.key[n])
          /\ \A m \in Subtree(t, t.right[n]) : CMP(t.key[n], t.key[m])
          /\ t.color[n] = RED =>
                /\ t.color[t.left[n]] = BLACK
                /\ t.color[t.right[n]] = BLACK
    /\ t.color[t.m_root] = BLACK
    /\ t.color[t.m_nil] = BLACK
    /\ Cardinality(BlackCounts(t, t.m_root)) = 1
    /\ SizeOf(t, t.m_root) = Len(KeySeq(t))

\* Every field of cell c is the same before and after the step.
SameCell(c) ==
    /\ (c \in tree.live) = (c \in tree'.live)
    /\ tree.key[c] = tree'.key[c]
    /\ tree.size[c] = tree'.size[c]
    /\ tree.left[c] = tree'.left[c]
    /\ tree.right[c] = tree'.right[c]
    /\ tree.parent[c] = tree'.parent[c]
    /\ tree.color[c] = tree'.color[c]

(***************************************************************************)
(* C21.  Sentinel invariant: in every state, before and after every call,  *)
(* the sentinel of every tree object that exists (constructed, copied,     *)
(* moved-to or moved-from) is BLACK, has size 0, and its left, right and   *)
(* parent point to the sentinel itself.                                    *)
(***************************************************************************)
C21_SentinelInvariant ==
    \A o \in Objects :
        Alive(o) =>
            LET t == View(o) IN
            /\ t.color[t.m_nil] = BLACK
            /\ t.size[t.m_nil] = 0
            /\ t.left[t.m_nil] = t.m_nil
            /\ t.right[t.m_nil] = t.m_nil
            /\ t.parent[t.m_nil] = t.m_nil

(***************************************************************************)
(* C22.  The source of a move is a valid empty tree: every later size,     *)
(* begin, find, orderOfKey, findByOrder, insert and erase on it, also      *)
(* after keys have been inserted again, reads through no null pointer and  *)
(* gives the result the reference gives on the key sequence the object     *)
(* holds, which is empty right after the move.                             *)
(***************************************************************************)
C22_StepOnSource ==
    (/\ made[who'.this] = "moved_from"
     /\ ret'.op \in {"size", "begin", "find", "orderOfKey", "findByOrder",
                     "insert", "erase"}) =>
        LET e == RefCall(KeySeq(View(who'.this)), ret'.op, ret'.arg)
            t == ViewAfter(who'.this)
        IN  /\ fault' = "none"
            /\ KeySeq(t) = e.s
            /\ Deref(t, ret'.node) = e.pos
            /\ ret'.num = e.num
            /\ ret'.flag = e.flag

C22_StepMove ==
    (ret'.op \in {"moveConstruct", "moveAssign"} /\ who'.this # who'.that) =>
        /\ made'[who'.that] = "moved_from"
        /\ KeySeq(ViewAfter(who'.that)) = << >>
        /\ size(ViewAfter(who'.that)) = 0

C22_MovedFromIsValidEmpty == [][C22_StepMove /\ C22_StepOnSource]_vars

(***************************************************************************)
(* C23.  A move construction or move assignment from S into a different    *)
(* object D leaves D with the key sequence S held before the move and with *)
(* the tree invariants; the nodes and the sentinel D owned before are      *)
(* deleted, so the only cell allocated by the call is S's new sentinel.    *)
(***************************************************************************)
C23_StepMove ==
    (ret'.op \in {"moveConstruct", "moveAssign"} /\ who'.this # who'.that) =>
        LET d == ViewAfter(who'.this)
            gone == IF ret'.op = "moveAssign" THEN Owned(View(who'.this))
                                              ELSE {}
        IN  /\ KeySeq(d) = KeySeq(View(who'.that))
            /\ Owned(d) = Owned(View(who'.that))
            /\ \A c \in Owned(d) : SameCell(c)
            /\ TreeInvariants(d)
            /\ Cardinality(tree'.live) =
                   Cardinality(tree.live) - Cardinality(gone) + 1
            /\ Owned(d) \cap Owned(ViewAfter(who'.that)) = {}

C23_MoveTransfers == [][C23_StepMove]_vars

\* A move assignment into an object that held two keys, from an object that
\* holds two keys.
C23_Witness ==
    /\ ret.op = "moveAssign"
    /\ who.this # who.that
    /\ ret.work.iters = 2
    /\ Len(KeySeq(View(who.this))) = 2

(***************************************************************************)
(* C24.  Copy construction of b from a gives b the key sequence and size   *)
(* of a and the tree invariants, in cells of its own, and leaves a as it   *)
(* was; afterwards no insert, erase or clear on one of the two objects     *)
(* changes a cell of the other.                                            *)
(***************************************************************************)
C24_StepCopy ==
    (ret'.op = "copyConstruct") =>
        LET c == ViewAfter("b") IN
        /\ KeySeq(c) = KeySeq(tree)
        /\ size(c) = size(tree)
        /\ TreeInvariants(c)
        /\ Owned(c) \cap Owned(tree) = {}
        /\ Handle(tree') = Handle(tree)
        /\ \A n \in Owned(tree) : SameCell(n)

C24_StepIndependent ==
    (/\ ret'.op \in {"insert", "erase", "clear"}
     /\ Alive(Peer(who'.this))) =>
        LET p == Peer(who'.this) IN
        /\ ObjAfter(p) = Obj(p)
        /\ \A n \in Owned(View(p)) : SameCell(n)
        /\ KeySeq(ViewAfter(p)) = KeySeq(View(p))
        /\ Owned(ViewAfter(p)) \cap Owned(ViewAfter(who'.this)) = {}

C24_CopyIsIndependent == [][C24_StepCopy /\ C24_StepIndependent]_vars

\* b was copy-constructed from a tree of two keys, a key has been erased from
\* the copy, and a still holds two keys.
C24_Witness ==
    /\ made["b"] = "copied"
    /\ ret.op = "erase"
    /\ who.this = "b"
    /\ Len(KeySeq(View("b"))) = 1
    /\ Len(KeySeq(tree)) = 2

(***************************************************************************)
(* C25.  Copy assignment o = p of two distinct objects leaves o with the   *)
(* key sequence and the size of p, whatever o held before; o = o changes   *)
(* nothing.                                                                *)
(***************************************************************************)
C25_StepCopyAssign ==
    (ret'.op = "copyAssign") =>
        IF who'.this # who'.that
        THEN /\ KeySeq(ViewAfter(who'.this)) = KeySeq(View(who'.that))
             /\ size(ViewAfter(who'.this)) = size(View(who'.that))
        ELSE /\ tree' = tree
             /\ other' = other

C25_CopyAssign == [][C25_StepCopyAssign]_vars

(***************************************************************************)
(* C26.  The queries find, orderOfKey, findByOrder, min, max, begin, end,  *)
(* size, empty and the increment and decrement of an iterator leave the    *)
(* tree as it is: m_root, m_nil, and the key, links, colour and size of    *)
(* every node and of the sentinel.                                         *)
(***************************************************************************)
QueryOps ==
    {"find", "orderOfKey", "findByOrder", "min", "max", "begin", "end",
     "size", "increment", "decrement", "forEach"}

C26_StepQuery == (ret'.op \in QueryOps) => (tree' = tree)

C27_StepStop ==
    (ret'.op = "stop") =>
        IF ~watch.m_started
        THEN /\ ret'.flag
             /\ watch' = watch
             /\ tree' = tree
        ELSE /\ ~ret'.flag
             /\ ~watch'.m_started
             /\ watch'.m_array =
                    Append(watch.m_array, ret'.arg - watch.m_timepoint)
             /\ watch'.m_sum = watch.m_sum + (ret'.arg - watch.m_timepoint)

C27_StepStartClear ==
    /\ (ret'.op = "start") => watch'.m_started
    /\ (ret'.op \in {"clear", "RedBlackTree"}) => ~watch'.m_started

C27_StopNeedsStart == [][C27_StepStop /\ C27_StepStartClear]_vars

\* stop() has thrown on a stopwatch that holds two laps and was stopped
\* since its last start().
C27_Witness ==
    /\ ret.op = "stop"
    /\ ret.flag
    /\ Len(watch.m_array) = 2
    /\ ~watch.m_started

(***************************************************************************)
(* C28.  median() returns 0 when the ordered set is empty.  Otherwise,     *)
(* with n the size of the set, it selects rank n/2 and, for even n, also   *)
(* rank n/2 - 1, both less than n; it returns the value of rank n/2 for    *)
(* odd n and half the sum of the two values for even n, in units of the    *)
(* Duration asked for.                                                     *)
(***************************************************************************)
C28_StepMedian ==
    (ret'.op = "median") =>
        LET s == KeySeq(tree)
            n == Len(s)
            h == n \div 2
        IN  IF n = 0 THEN ret'.num = 0
            ELSE /\ ret'.work.iters = h
                 /\ ret'.work.iters < n
                 /\ ret'.work.rots < n
                 /\ IF n % 2 = 1
                    THEN /\ ret'.work.rots = h
                         /\ ret'.num = duration_cast(ret'.arg, s[h + 1])
                    ELSE /\ ret'.work.rots = h - 1
                         /\ ret'.num =
                                duration_cast(ret'.arg, s[h] + s[h + 1]) \div 2

C28_Median == [][C28_StepMedian]_vars

\* median() over four stored durations, in clock ticks, has averaged the
\* second and the third.
C28_Witness ==
    /\ ret.op = "median"
    /\ ret.arg = 1
    /\ Len(KeySeq(tree)) = 4
    /\ ret.work.iters = 2
    /\ ret.work.rots = 1
    /\ ret.num >= 1

(***************************************************************************)
(* C29.  After any sequence of start(), stop() and clear() the ordered set *)
(* holds one entry per recorded lap: its size is the lap count size()      *)
(* returns, laps of equal duration included.                               *)
(***************************************************************************)
C29_SetHoldsEveryLap == size(tree) = Stopwatch_size(watch)

(***************************************************************************)
(* C30.  rotateLeft(x) with a real right child y, and rotateRight(x) with  *)
(* a real left child y, in a tree with the size invariant: the in-order    *)
(* key sequence is kept; y becomes the parent of x and takes x's place     *)
(* under x's former parent, or becomes the root if x was the root; the     *)
(* size field of x and of y changes and that of no other node does; and    *)
(* the size invariant holds afterwards, for x and y as for the others.     *)
(***************************************************************************)
SizeInvariantHolds(t) ==
    \A n \in RealNodes(t) :
        t.size[n] = 1 + SizeOf(t, t.left[n]) + SizeOf(t, t.right[n])

\* What both rotations have in common, for the node x rotated at and its
\* child y that moved up.
RotationMoves(x, y) ==
    LET p == tree.parent[x] IN
    /\ SizeInvariantHolds(tree)
    /\ KeySeq(tree') = KeySeq(tree)
    /\ tree'.parent[x] = y
    /\ tree'.parent[y] = p
    /\ IF p = tree.m_nil
       THEN tree'.m_root = y
       ELSE /\ tree'.m_root = tree.m_root
            /\ IF x = tree.left[p] THEN tree'.left[p] = y
                                   ELSE tree'.right[p] = y
    /\ tree'.size[x] # tree.size[x]
    /\ tree'.size[y] # tree.size[y]
    /\ \A n \in tree.live \ {x, y} : tree'.size[n] = tree.size[n]
    /\ tree'.size[y] = tree.size[x]
    /\ SizeInvariantHolds(tree')
    /\ tree'.live = tree.live
    /\ tree'.key = tree.key
    /\ tree'.color = tree.color
    /\ tree'.m_nil = tree.m_nil

C30_StepRotateLeft ==
    (ret'.op = "rotateLeft") =>
        LET x == ret'.node
            y == tree.right[x]
        IN  /\ RotationMoves(x, y)
            /\ tree'.left[y] = x
            /\ tree'.right[x] = tree.left[y]
            /\ tree'.left[x] = tree.left[x]
            /\ tree'.right[y] = tree.right[y]

C30_StepRotateRight ==
    (ret'.op = "rotateRight") =>
        LET x == ret'.node
            y == tree.left[x]
        IN  /\ RotationMoves(x, y)
            /\ tree'.right[y] = x
            /\ tree'.left[x] = tree.right[y]
            /\ tree'.right[x] = tree.right[x]
            /\ tree'.left[y] = tree.left[y]

C30_Rotations == [][C30_StepRotateLeft /\ C30_StepRotateRight]_vars

\* A right rotation at the root of a tree of five keys has made the former
\* left child the root, and the former root keeps a subtree on both sides.
C30_Witness ==
    /\ ret.op = "rotateRight"
    /\ tree.parent[ret.node] = tree.m_root
    /\ tree.left[ret.node] # tree.m_nil
    /\ tree.right[ret.node] # tree.m_nil
    /\ Len(KeySeq(tree)) = 5

(***************************************************************************)
(* Vocabulary of the properties of the steps inside erase and the fixups   *)
(***************************************************************************)
\* The nodes met on the way up the parent links from `from', up to `to'
\* and without it.
RECURSIVE PathUp(_, _, _)
PathUp(t, from, to) ==
    IF from = to THEN {}
    ELSE {from} \cup PathUp(t, t.parent[from], to)

(***************************************************************************)
(* C31.  erase of a node z with two children whose in-order successor y is *)
(* not the right child of z, at the point before the fixup runs: the size  *)
(* of every proper ancestor of z is 1 less than before the call, the size  *)
(* of every node on the path from the old parent of y up to the right      *)
(* child of z is 1 less, the size of y is the old size of z less 1, and    *)
(* the size of every other node, z and the sentinel included, is what it   *)
(* was.                                                                    *)
(***************************************************************************)
C31_StepSizes ==
    (ret'.op = "erase" /\ ret'.work.splice = "successor_is_deeper") =>
        LET z == search(tree, ret'.arg)
            y == min(tree, tree.right[z])
            relinked  == eraseRelink(tree, z).t
            ancestors == PathUp(tree, tree.parent[z], tree.m_nil)
            path      == PathUp(tree, tree.parent[y], z)
        IN  /\ tree.right[z] \in path
            /\ tree.parent[y] \in path
            /\ y \notin path
            /\ ancestors \cap path = {}
            /\ \A n \in ancestors \cup path :
                  relinked.size[n] = Minus(tree.size[n], 1)
            /\ relinked.size[y] = Minus(tree.size[z], 1)
            /\ \A n \in tree.live \ (ancestors \cup path \cup {y}) :
                  relinked.size[n] = tree.size[n]

C31_EraseSizes == [][C31_StepSizes]_vars

\* erase has taken out a node that was not the root and whose successor lay
\* two or more levels below it; the successor was RED, so no fixup ran and
\* it stands where the erased node stood, above a right subtree of height 2
\* or more.
C31_Witness ==
    /\ ret.op = "erase"
    /\ ret.work.splice = "successor_is_deeper"
    /\ ret.work.iters = 0
    /\ ret.node \in RealNodes(tree)
    /\ tree.parent[ret.node] # tree.m_nil
    /\ Height(tree, tree.right[ret.node]) >= 2

(***************************************************************************)
(* C32.  No dangling reference after erase.  When erase destroys the node  *)
(* z, z is the one cell that is freed, and no left, right or parent link   *)
(* of a remaining node or of the sentinel refers to z, nor does m_root.    *)
(* In every state every link of a live node and m_root refer to live       *)
(* nodes, the live real nodes are the nodes reachable from the root, and   *)
(* there are size() of them.                                               *)
(***************************************************************************)
C32_Links ==
    /\ tree.m_root \in tree.live
    /\ \A n \in tree.live :
          /\ tree.left[n] \in tree.live
          /\ tree.right[n] \in tree.live
          /\ tree.parent[n] \in tree.live
    /\ RealNodes(tree) = Subtree(tree, tree.m_root)
    /\ Cardinality(RealNodes(tree)) = size(tree)

C32_StepErase ==
    (ret'.op = "erase" /\ ret'.arg \in StoredKeys(tree)) =>
        LET z == search(tree, ret'.arg) IN
        /\ tree'.live = tree.live \ {z}
        /\ tree'.m_root # z
        /\ \A n \in tree'.live :
              /\ tree'.left[n] # z
              /\ tree'.right[n] # z
              /\ tree'.parent[n] # z

C32_NoDangling == C32_Links /\ [][C32_StepErase /\ C32_Links']_vars

\* erase has destroyed a node that had two children, and the successor that
\* took its place has both children: links on every side of the destroyed
\* node were rewritten.
C32_Witness ==
    /\ ret.op = "erase"
    /\ ret.work.splice \in {"successor_is_child", "successor_is_deeper"}
    /\ ret.node \in RealNodes(tree)
    /\ tree.parent[ret.node] # tree.m_nil
    /\ tree.left[ret.node] # tree.m_nil
    /\ tree.right[ret.node] # tree.m_nil
    /\ Cardinality(tree.live) < NumKeys

\* Following parent links from n leads to the sentinel in at most `fuel'
\* steps.
RECURSIVE ClimbsToNil(_, _, _)
ClimbsToNil(t, n, fuel) ==
    IF n = t.m_nil THEN TRUE
    ELSE IF fuel = 0 THEN FALSE
    ELSE ClimbsToNil(t, t.parent[n], fuel - 1)

(***************************************************************************)
(* C33.  Parent-link consistency: after every insert, erase and clear the  *)
(* parent of the root is the sentinel, and for every real node n: each     *)
(* real child c of n has c.parent = n; n is the root when its parent is    *)
(* the sentinel and else is the left or the right child of its parent,     *)
(* which is a real node; the two children of n are different nodes unless  *)
(* both are the sentinel; and the parent links from n lead to the sentinel *)
(* without coming back to n (the links form a tree, with no cycle).        *)
(***************************************************************************)
C33_ParentLinks ==
    /\ tree.parent[tree.m_root] = tree.m_nil
    /\ \A n \in RealNodes(tree) :
          /\ tree.left[n] # tree.m_nil => tree.parent[tree.left[n]] = n
          /\ tree.right[n] # tree.m_nil => tree.parent[tree.right[n]] = n
          /\ tree.left[n] = tree.right[n] => tree.left[n] = tree.m_nil
          /\ IF tree.parent[n] = tree.m_nil
             THEN n = tree.m_root
             ELSE /\ tree.parent[n] \in RealNodes(tree)
                  /\ \/ tree.left[tree.parent[n]] = n
                     \/ tree.right[tree.parent[n]] = n
          /\ ClimbsToNil(tree, n, Cardinality(RealNodes(tree)))

\* A tree of six or more nodes that an erase has just left, by its
\* two-children branch and a fixup that rotated twice or more.
C33_Witness ==
    /\ ret.op = "erase"
    /\ ret.work.splice \in {"successor_is_child", "successor_is_deeper"}
    /\ ret.work.rots >= 2
    /\ size(tree) >= 6
    /\ Height(tree, tree.m_root) >= 3

\* The loop of fixUpErase started on x in tree t, as the sequence of its
\* passes: the tree and x each pass starts from and the tree it leaves.
RECURSIVE FixUpErasePasses(_, _)
FixUpErasePasses(t, x) ==
    IF ~(x # t.m_root /\ t.color[x] = BLACK) THEN << >>
    ELSE LET r == IF x = t.left[t.parent[x]]
                  THEN fixUpEraseLeft(t, x) ELSE fixUpEraseRight(t, x)
         IN  << [from |-> t, x |-> x, to |-> r.t] >>
                 \o FixUpErasePasses(r.t, r.x)

\* The sentinel as the constructor made it, as far as colour and size go.
SentinelKept(t) == t.color[t.m_nil] = BLACK /\ t.size[t.m_nil] = 0

\* The nodes a pass of fixUpErase may paint RED: the parent of x and the
\* sibling w of x, and when w is RED the child of w that the rotation makes
\* the new sibling.
PaintedRed(t, x) ==
    LET p == t.parent[x]
        left == (x = t.left[p])
        w == IF left THEN t.right[p] ELSE t.left[p]
    IN  {p, w} \cup (IF t.color[w] = RED
                     THEN {IF left THEN t.left[w] ELSE t.right[w]}
                     ELSE {})

(***************************************************************************)
(* C34.  The assertion at the end of erase never fails.  For every         *)
(* erase of a stored key in a reachable tree the sentinel is BLACK when    *)
(* the assertion is reached; the sentinel is BLACK and has size 0 after    *)
(* the relinking, after every pass of the loop of fixUpErase and when      *)
(* erase returns, and the nodes a pass paints RED are real nodes.          *)
(***************************************************************************)
C34_StepAssert ==
    (ret'.op = "erase" /\ ret'.arg \in StoredKeys(tree)) =>
        Do(eraseRelink(tree, search(tree, ret'.arg)), LAMBDA r :
           Do(IF r.y_original_color = BLACK
              THEN FixUpErasePasses(r.t, r.x) ELSE << >>, LAMBDA passes :
              /\ fault' # "assert_failed"
              /\ Len(passes) = ret'.work.iters
              /\ SentinelKept(r.t)
              /\ \A i \in 1 .. Len(passes) :
                    Do(passes[i], LAMBDA pass :
                       /\ SentinelKept(pass.to)
                       /\ PaintedRed(pass.from, pass.x)
                             \subseteq RealNodes(pass.from))
              /\ SentinelKept(tree')
              /\ tree'.m_nil = tree.m_nil))

C34_AssertionHolds == [][C34_StepAssert]_vars

\* erase has taken out a BLACK node without children (the fixup started on
\* the sentinel, which stood in its place) and the loop of the fixup made a
\* pass that rotated.
C34_Witness ==
    /\ ret.op = "erase"
    /\ ret.work.splice = "no_left"
    /\ ret.work.iters >= 1
    /\ ret.work.rots >= 1
    /\ ret.node = tree.m_nil
    /\ size(tree) >= 3

\* The loop of fixUpInsert started on z in tree t, as the sequence of its
\* passes: the tree and z each pass starts from, the tree and z it leaves,
\* and the rotations it called.
RECURSIVE FixUpInsertPasses(_, _)
FixUpInsertPasses(t, z) ==
    IF t.color[t.parent[z]] # RED THEN << >>
    ELSE LET r == IF t.parent[z] = t.left[t.parent[t.parent[z]]]
                  THEN fixUpInsertLeft(t, z) ELSE fixUpInsertRight(t, z)
         IN  << [from |-> t, z |-> z, to |-> r.t, z_after |-> r.z,
                 rots |-> r.rots] >>
                 \o FixUpInsertPasses(r.t, r.z)

\* The uncle of z: the other child of the parent of z's parent.
Uncle(t, z) ==
    LET g == t.parent[t.parent[z]] IN
    IF t.parent[z] = t.left[g] THEN t.right[g] ELSE t.left[g]

(***************************************************************************)
(* C35.  The fixup of insert rotates at most twice for one insert.  A pass *)
(* of its loop that finds the uncle RED calls no rotation, changes no link *)
(* and no size, and goes on from the grandparent of z, two levels up.  A   *)
(* pass that finds the uncle BLACK calls one rotation, or two when z is    *)
(* an inner grandchild, and after it the parent of z is not RED: it is the *)
(* last pass.                                                              *)
(***************************************************************************)
C35_StepInsert ==
    (ret'.op = "insert" /\ ret'.flag) =>
        Do(insertLink(tree, ret'.arg,
                      insertDescend(tree, ret'.arg, tree.m_root, tree.m_nil).y),
           LAMBDA l :
           Do(FixUpInsertPasses(l.t, l.z), LAMBDA passes :
              /\ Len(passes) = ret'.work.iters
              /\ ret'.work.rots <= 2
              /\ \A i \in 1 .. Len(passes) :
                    Do(passes[i], LAMBDA pass :
                       IF pass.from.color[Uncle(pass.from, pass.z)] = RED
                       THEN /\ pass.rots = 0
                            /\ pass.z_after =
                                 pass.from.parent[pass.from.parent[pass.z]]
                            /\ pass.to.left = pass.from.left
                            /\ pass.to.right = pass.from.right
                            /\ pass.to.parent = pass.from.parent
                            /\ pass.to.size = pass.from.size
                            /\ pass.to.m_root = pass.from.m_root
                       ELSE /\ pass.rots \in {1, 2}
                            /\ pass.rots = 2 <=>
                                 (pass.z = pass.from.left[pass.from.parent[pass.z]])
                                   # (pass.from.parent[pass.z] =
                                        pass.from.left[pass.from.parent[pass.from.parent[pass.z]]])
                            /\ pass.to.color[pass.to.parent[pass.z_after]] # RED
                            /\ i = Len(passes))))

C35_AtMostTwoRotations == [][C35_StepInsert]_vars

\* insert has stored a new key; its fixup made a pass that found the uncle
\* RED and then a pass that rotated twice.
C35_Witness ==
    /\ ret.op = "insert"
    /\ ret.flag
    /\ ret.work.iters >= 2
    /\ ret.work.rots = 2

(***************************************************************************)
(* C36.  Every public operation terminates on every reachable tree.  The   *)
(* loops that descend (insert, search, orderOfKey, findByOrder, min, max)  *)
(* step from a real node to a child, and the size field, a natural number  *)
(* that is 0 only at the sentinel, is strictly smaller at the child; the   *)
(* loops that climb (successor, predecessor, updateSize) step to the       *)
(* parent, where the size is strictly larger and at most size(), and reach *)
(* the sentinel within size() steps.  The loop of fixUpInsert and the loop *)
(* of fixUpErase make at most as many passes as the tree is high, and the  *)
(* loop of clear makes one pass for each node.                             *)
(***************************************************************************)
C36_Variant ==
    \A n \in RealNodes(tree) :
        /\ tree.size[n] >= 1
        /\ tree.size[n] <= size(tree)
        /\ SizeOf(tree, tree.left[n]) < tree.size[n]
        /\ SizeOf(tree, tree.right[n]) < tree.size[n]
        /\ tree.parent[n] # tree.m_nil =>
              tree.size[tree.parent[n]] > tree.size[n]
        /\ ClimbsToNil(tree, n, size(tree))

C36_StepBounded ==
    /\ ret'.op = "insert" =>
          ret'.work.iters <= Height(tree', tree'.m_root)
    /\ ret'.op = "erase" =>
          ret'.work.iters <= Height(tree, tree.m_root)
    /\ ret'.op = "clear" => ret'.work.iters = size(tree)

OnLargest(t, p) ==
    p \in RealNodes(t) /\ \A k \in StoredKeys(t) : ~CMP(t.key[p], k)

OnSmallest(t, p) ==
    p \in RealNodes(t) /\ \A k \in StoredKeys(t) : ~CMP(k, t.key[p])

(***************************************************************************)
(* C37.  Increment and decrement are inverse on real positions.  ++ from a *)
(* position p on a real node other than the maximum gives a real position  *)
(* from which -- gives p; -- from a position p on a real node other than   *)
(* the minimum gives a real position from which ++ gives p; ++ from the    *)
(* maximum gives end() and -- from the minimum gives end().                *)
(***************************************************************************)
C37_StepIncrement ==
    (ret'.op = "operator++" /\ ret.node \in RealNodes(tree)) =>
        IF OnLargest(tree, ret.node)
        THEN ret'.node = end(tree)
        ELSE /\ ret'.node \in RealNodes(tree)
             /\ operatorDecrement(tree, ret'.node) = ret.node

C37_StepDecrement ==
    (ret'.op = "operator--" /\ ret.node \in RealNodes(tree)) =>
        IF OnSmallest(tree, ret.node)
        THEN ret'.node = end(tree)
        ELSE /\ ret'.node \in RealNodes(tree)
             /\ operatorIncrement(tree, ret'.node) = ret.node

\* The two calls one after the other: the second returns to the node the
\* first started from.
C37_StepBack ==
    /\ (/\ ret.op = "operator++" /\ ret'.op = "operator--"
        /\ ret.arg \in RealNodes(tree) /\ ~OnLargest(tree, ret.arg))
          => ret'.node = ret.arg
    /\ (/\ ret.op = "operator--" /\ ret'.op = "operator++"
        /\ ret.arg \in RealNodes(tree) /\ ~OnSmallest(tree, ret.arg))
          => ret'.node = ret.arg

C37_Inverse ==
    [][C37_StepIncrement /\ C37_StepDecrement /\ C37_StepBack]_vars

\* -- has moved the iterator from a node without a left child to a node that
\* is not its parent: the loop of predecessor climbed more than one level.
C37_Witness ==
    /\ ret.op = "operator--"
    /\ ret.arg \in RealNodes(tree)
    /\ ret.node \in RealNodes(tree)
    /\ tree.left[ret.arg] = tree.m_nil
    /\ tree.parent[ret.arg] # ret.node

(***************************************************************************)
(* C38.  The end position is absorbing.  On every tree built from a        *)
(* default-constructed tree by insert and erase, the empty tree included,  *)
(* ++ on end() gives end() and -- on end() gives end(), not the position   *)
(* of the maximum, and neither call changes the tree.                      *)
(***************************************************************************)
C38_StepOnEnd ==
    (ret'.op \in {"operator++", "operator--"} /\ ret.node = end(tree)) =>
        /\ ret'.node = end(tree)
        /\ ~OnLargest(tree, ret'.node)
        /\ tree' = tree

C38_EndIsAbsorbing == [][C38_StepOnEnd]_vars

\* -- has been applied to end() on a tree of three or more keys and has
\* returned end().
C38_Witness ==
    /\ ret.op = "operator--"
    /\ ret.arg = end(tree)
    /\ ret.node = end(tree)
    /\ size(tree) >= 3

====
